---- MODULE Spec2Model ----
(***************************************************************************)
(* Model of the screenshot acquisition and lifecycle subsystem             *)
(* (electron/ScreenshotHelper.ts): the two bounded screenshot queues, the  *)
(* files behind them, the view that selects the queue, and the Windows     *)
(* capture orchestrator with its two methods and three retry rounds.       *)
(*                                                                         *)
(* An async method is split at its await points: one action per segment    *)
(* that runs without yielding to the event loop.                           *)
(***************************************************************************)
EXTENDS Integers, Sequences, FiniteSets, TLC

\* ---------------------------------------------------------------- bounds
\* Uuids handed out to artifact paths in one behaviour, where a queue is to
\* fill up and evict.
MaxPaths == 6
\* Uuids handed out in one behaviour of the specifications that follow
\* several removals.
MaxFewPaths == 3
\* Disturbances in one behaviour of Spec: deleteScreenshot calls, clear calls
\* and injected OS-level failures (EPERM/EBUSY on unlink, a failed write, a
\* failed mkdir).
MaxDisturbances == 3
\* Disturbances in one behaviour of SpecFill.
MaxFillDisturbances == 1
\* Injected OS-level failures in one behaviour of SpecEvict.
MaxFaults == 1
\* Uuids handed to artifact paths in one behaviour of SpecPlatform.
MaxPlatformPaths == 1
\* Uuids handed out in one behaviour of SpecBoth, where both queues are to
\* fill up and one is to evict.
MaxBothPaths == 11
\* Uuids handed out in one behaviour of SpecConcurrent, where two captures
\* in flight are to evict from a full queue.
MaxConcurrentPaths == 7
\* Uuids handed out in one behaviour of SpecPreview.
MaxPreviewPaths == 1
\* Disturbances in one behaviour of SpecPreview: getImagePreview calls too.
MaxPreviewDisturbances == 2
\* Keys of Config that one updateConfig call may name.
MaxUpdateKeys == 2
\* Uuids handed out before the last capture of a behaviour of SpecTemp
\* starts, those of temp files included: a capture that tried both
\* strategies is followed by another.
MaxTempPaths == 4

\* ------------------------------------------------------- program constants
MAX_SCREENSHOTS == 5
maxRetries == 3
\* The size below which captureWindowsScreenshot rejects a screenshot.
MinScreenshotBytes == 1024
\* The factor of the backoff delay, in ms.
backoffBaseMs == 200
\* The age beyond which cleanupTempFiles deletes a temp file, in ms.
StaleAfterMs == 5 * 60 * 1000
\* The age up to which a behaviour follows a temp file, in ms.
MaxAgeMs == StaleAfterMs + 1

Platforms == {"win32", "darwin", "linux"}

Views == {"queue", "solutions", "debug"}

screenshotDir == "screenshots"
extraScreenshotDir == "extra_screenshots"
ArtifactDirs == {screenshotDir, extraScreenshotDir}
tempDir == "interview-coder-screenshots"
AllDirs == ArtifactDirs \cup {tempDir}

\* The callers that may have a takeScreenshot() call in flight.
Procs == {"c1", "c2"}

\* ------------------------------------------------------------ file names
PngExt == <<".", "p", "n", "g">>

\* A suffix test that skips the first character of the suffix.
endsWith_Tail(s, suffix) ==
    /\ Len(s) >= Len(suffix) - 1
    /\ SubSeq(s, Len(s) - Len(suffix) + 2, Len(s)) = Tail(suffix)

\* String.prototype.endsWith on a name held as a sequence of characters.
endsWith(s, suffix) ==
    /\ Len(s) >= Len(suffix)
    /\ SubSeq(s, Len(s) - Len(suffix) + 1, Len(s)) = suffix

\* uuidv4(): the n-th value handed out; all values differ.
Uuids == <<"u1", "u2", "u3", "u4", "u5", "u6", "u7", "u8", "u9", "u10",
           "u11", "u12", "u13">>
uuidv4(n) == Uuids[n]

\* path.join(dir, `${uuid}.png`)
MkPath(dir, n) == [dir |-> dir, name |-> <<uuidv4(n)>> \o PngExt]

NoPath == [dir |-> "", name |-> <<>>]

AllPaths == {MkPath(d, n) : d \in ArtifactDirs, n \in 1..Len(Uuids)}

\* Names of files that may lie in an artifact directory when the program
\* starts: a.png, n.txt and xpng.
StartNames == {<<"a", ".", "p", "n", "g">>, <<"n", ".", "t", "x", "t">>,
               <<"x", "p", "n", "g">>}
StartPaths == {[dir |-> d, name |-> n] : d \in ArtifactDirs, n \in StartNames}

\* --------------------------------------------------------------- buffers
\* A Buffer is its length and its first (at most 8) bytes.
pngSignature == <<137, 80, 78, 71, 13, 10, 26, 10>>

EmptyBuf == [len |-> 0, head |-> <<>>]
TruncBuf == [len |-> 4, head |-> <<137, 80, 78, 71>>]
CorruptBuf == [len |-> 2048, head |-> <<0, 80, 78, 71, 13, 10, 26, 10>>]
SmallPng == [len |-> 500, head |-> pngSignature]
GoodPng == [len |-> 2048, head |-> pngSignature]
Buffers == {EmptyBuf, TruncBuf, CorruptBuf, SmallPng, GoodPng}

\* Buffers around the size floor of captureWindowsScreenshot.
NearPng == [len |-> 1023, head |-> pngSignature]
EdgePng == [len |-> 1024, head |-> pngSignature]
WinBuffers == Buffers \cup {NearPng, EdgePng}

isValidPng(buffer) ==
    IF buffer.len < 8 THEN FALSE
    ELSE SubSeq(buffer.head, 1, 8) = pngSignature

\* The buffers isValidPng is tried on: every length of TestLengths, the
\* signature bytes with at most one byte (k, 0 for none) replaced by v.
TestLengths == {0, 1, 4, 7, 8, 9, 500, 1023, 1024, 2048}
TestBytes == {0, 80, 255}
MkBuf(len, k, v) ==
    [len |-> len,
     head |-> [i \in 1..(IF len < 8 THEN len ELSE 8) |->
                  IF i = k THEN v ELSE pngSignature[i]]]
TestBuffers == {MkBuf(len, k, v) : len \in TestLengths, k \in 0..8,
                                   v \in TestBytes}

\* ----------------------------------------------------------------- state
VARIABLES
    cfg,                  \* the bounds of the behaviour
    configFile,           \* what config.json holds
    kcall,                \* <<the updateConfig call just made>>, <<>> before
    phase,                \* "new" before the constructor has run, then "ready"
    startFiles,           \* the files the constructor found on disk
    heldMain,             \* the array a getScreenshotQueue() caller holds
    heldExtra,            \* the array a getExtraScreenshotQueue() caller holds
    view,                 \* this.view
    screenshotQueue,      \* this.screenshotQueue
    extraScreenshotQueue, \* this.extraScreenshotQueue
    dirs,                 \* the artifact directories that exist
    files,                \* the files in the artifact directories
    pendingUnlinks,       \* fs.unlink(path, cb) calls issued, not yet run
    nextId,               \* the next uuid
    spent,                \* disturbances so far
    pc,                   \* where each takeScreenshot() call stands
    ppath,                \* its screenshotPath
    premoved,             \* its removedPath
    dpc,                  \* where the deleteScreenshot() call stands
    dpath,                \* its path argument
    dprev,                \* the deleteScreenshot return it directly follows
    written,              \* the bytes writeFile has put behind each path
    gpc,                  \* where the getImagePreview() call stands
    gpath,                \* its filepath argument
    platform,             \* process.platform
    pbuf,                 \* screenshotBuffer of each takeScreenshot call
    vbuf,                 \* the buffer handed to isValidPng
    vresult,              \* <<what isValidPng returned>>, <<>> before the call
    opc,                  \* where captureWindowsScreenshot stands
    attempt,              \* its loop variable
    errors,               \* its errors array
    calls,                \* the strategy invocations it made, with outcomes
    sleeps,               \* the backoff delays it waited, in ms
    tempFiles,            \* the files in the temporary directory
    tempFile,             \* the temp file of the strategy in flight
    cleanups,             \* the cleanupTempFiles() runs since takeScreenshot
                          \* was called
    pview,                \* this.view when each takeScreenshot call was made
    late,                 \* the invocations whose promise settled after
                          \* their timer had fired
    oresult,              \* what captureWindowsScreenshot returned or threw
    ret                   \* what the step just taken returned, if it returned

qvars == <<screenshotQueue, extraScreenshotQueue>>
fsvars == <<dirs, files, pendingUnlinks>>
cvars == <<pc, ppath, premoved>>
dvars == <<dpc, dpath, dprev>>

hvars == <<heldMain, heldExtra>>
ovars == <<opc, attempt, errors, calls, sleeps, tempFiles, tempFile, oresult>>
vvars == <<vbuf, vresult>>
gvars == <<written, gpc, gpath>>
kvars == <<configFile, kcall>>
envc == <<cfg, kvars, phase, startFiles, ovars, late, vvars, platform>>
env == <<envc, pbuf, cleanups, pview, gvars>>

vars == <<env, hvars, view, qvars, fsvars, cvars, dvars, nextId, spent, ret>>

\* The bounds of a behaviour: the uuids and the disturbances it may use, and
\* whether return values are recorded in ret. A specification may also have
\* the bytes written to each file recorded (bytes) and the view at each
\* takeScreenshot call (views).
Cfg(maxPaths, maxDisturb, track) ==
    [maxPaths |-> maxPaths, maxDisturb |-> maxDisturb, track |-> track,
     bytes |-> FALSE, views |-> FALSE]

\* The empty string, as getImagePreview returns it.
EmptyString == [prefix |-> "", len |-> 0, head |-> <<>>]

NoRet == [op |-> "", proc |-> "", ok |-> FALSE, path |-> NoPath,
          error |-> "", prev |-> "", data |-> EmptyString]

\* A return value: the operation, the caller, success or the error, the path
\* (takeScreenshot: the path returned; deleteScreenshot: its argument), and
\* for a deleteScreenshot that directly follows a deleteScreenshot of the same
\* path, how that one ended ("" when it follows none).
Ret(op, c, ok, path, error, prev) ==
    IF cfg.track
    THEN [op |-> op, proc |-> c, ok |-> ok, path |-> path, error |-> error,
          prev |-> prev, data |-> EmptyString]
    ELSE NoRet

Range(s) == {s[i] : i \in 1..Len(s)}

\* A filter that keeps what it should drop: === for !==.
filter_Inverted(q, path) == SelectSeq(q, LAMBDA filePath : filePath = path)

\* Array.prototype.filter((filePath) => filePath !== path)
filter(q, path) == SelectSeq(q, LAMBDA filePath : filePath # path)

\* A disturbance may happen while the budget lasts.
CanDisturb == spent < cfg.maxDisturb

\* ------------------------------------------------------ the two queues
\* An array a caller holds: none; the very array object a queue field points
\* to (alias); or an array object no field points to any more, with its
\* elements.
NotHeld == [held |-> FALSE, alias |-> FALSE, val |-> <<>>]
Alias == [held |-> TRUE, alias |-> TRUE, val |-> <<>>]

\* The elements of a held array, q being the queue field it may alias.
HeldVal(h, q) == IF h.alias THEN q ELSE h.val

\* The queue field is assigned a new array: a held alias of the old array
\* keeps the old elements.
Detach(h, q) ==
    IF h.held /\ h.alias THEN [held |-> TRUE, alias |-> FALSE, val |-> q]
    ELSE h

\* A choice of directory that sends only "solutions" to the extra queue.
targetDir_OnlySolutions(v) ==
    IF v = "solutions" THEN extraScreenshotDir ELSE screenshotDir

\* takeScreenshot: the directory (and with it the queue) the view selects.
targetDir(v) == IF v = "queue" THEN screenshotDir ELSE extraScreenshotDir

\* An unshift for the push, with a pop over the bound: the newest path
\* comes first.
pushAndShift_Unshift(q, p) ==
    LET q1 == <<p>> \o q IN
    IF Len(q1) > MAX_SCREENSHOTS
    THEN [queue |-> SubSeq(q1, 1, Len(q1) - 1), removed |-> q1[Len(q1)]]
    ELSE [queue |-> q1, removed |-> NoPath]

\* A push after which, over the bound, the path just pushed is popped.
pushAndShift_Pop(q, p) ==
    IF Len(q) + 1 > MAX_SCREENSHOTS
    THEN [queue |-> q, removed |-> p]
    ELSE [queue |-> Append(q, p), removed |-> NoPath]

\* A push with the shift forgotten.
pushAndShift_NoShift(q, p) == [queue |-> Append(q, p), removed |-> NoPath]

\* A push that, over the bound, drops the second-oldest entry: splice(1, 1)
\* for shift().
pushAndShift_Second(q, p) ==
    LET q1 == Append(q, p) IN
    IF Len(q1) > MAX_SCREENSHOTS
    THEN [queue |-> <<Head(q1)>> \o Tail(Tail(q1)), removed |-> q1[2]]
    ELSE [queue |-> q1, removed |-> NoPath]

\* takeScreenshot: queue.push(screenshotPath), then, over MAX_SCREENSHOTS,
\* removedPath = queue.shift().
pushAndShift(q, p) ==
    LET q1 == Append(q, p) IN
    IF Len(q1) > MAX_SCREENSHOTS
    THEN [queue |-> Tail(q1), removed |-> Head(q1)]
    ELSE [queue |-> q1, removed |-> NoPath]

\* A deleteScreenshot that filters both queues.
afterDelete_Both(v, main, extra, path) ==
    [main |-> filter(main, path), extra |-> filter(extra, path)]

\* deleteScreenshot: the queues after the filter, which the view selects.
afterDelete(v, main, extra, path) ==
    IF v = "queue"
    THEN [main |-> filter(main, path), extra |-> extra]
    ELSE [main |-> main, extra |-> filter(extra, path)]

\* deleteScreenshot: `this.queue = this.queue.filter(...)` assigns the field
\* of the queue the view selects a new array.
Reassigned(v) ==
    IF v = "queue"
    THEN /\ heldMain' = Detach(heldMain, screenshotQueue)
         /\ UNCHANGED heldExtra
    ELSE /\ heldExtra' = Detach(heldExtra, extraScreenshotQueue)
         /\ UNCHANGED heldMain

\* What captureWindowsScreenshot has returned or thrown: nothing yet.
NoResult == [ok |-> FALSE, buffer |-> EmptyBuf, method |-> 0, errors |-> <<>>]

\* ----------------------------------------------------------- ConfigHelper
\* The three steps that have a provider and a model of their own.
Steps == {"extraction", "solution", "debugging"}

\* `${step}Provider` and `${step}Model`
providerKey(step) ==
    CASE step = "extraction" -> "extractionProvider"
      [] step = "solution" -> "solutionProvider"
      [] step = "debugging" -> "debuggingProvider"
modelKey(step) ==
    CASE step = "extraction" -> "extractionModel"
      [] step = "solution" -> "solutionModel"
      [] step = "debugging" -> "debuggingModel"

\* The keys of Config that bear on providers and models. A Config is a
\* function on these keys, a Partial<Config> a function on some of them.
ProviderKeys == {providerKey(step) : step \in Steps}
ModelKeys == {modelKey(step) : step \in Steps}
ConfigKeys == {"apiProvider", "lmstudioModel"} \cup ProviderKeys \cup ModelKeys

\* The step a model key belongs to.
stepOf(key) == CHOOSE step \in Steps : modelKey(step) = key

Providers == {"gemini", "lmstudio"}

GEMINI_MODELS ==
    {"gemini-2.5-flash", "gemini-2.0-flash", "gemini-2.5-pro",
     "gemini-2.0-flash-lite", "gemini-3-pro-preview", "gemini-3-flash-preview"}

defaultConfig ==
    [key \in ConfigKeys |->
        CASE key \in {"apiProvider"} \cup ProviderKeys -> "gemini"
          [] key \in ModelKeys -> "gemini-2.0-flash"
          [] key = "lmstudioModel" -> "qwen3-vl-8b"]

\* The model names an update may give a step: an allowed Gemini model, a
\* name that is none, and the empty string. The names an update may give
\* lmstudioModel.
ModelNames == {"gemini-2.5-pro", "local-model", ""}
LmStudioModelNames == {"local-model", ""}

\* The values an update may give a key.
ValuesOf(key) ==
    IF key \in ModelKeys THEN ModelNames
    ELSE IF key = "lmstudioModel" THEN LmStudioModelNames
    ELSE Providers

\* The Partial<Config> objects that name at most n of the keys, each with
\* one of its values. One that names other keys only (language, opacity) is
\* the empty one.
UpdatesOf(n) ==
    UNION {{u \in [keys -> ModelNames \cup LmStudioModelNames \cup Providers] :
               \A key \in keys : u[key] \in ValuesOf(key)} :
           keys \in {ks \in SUBSET ConfigKeys : Cardinality(ks) <= n}}

\* The arguments of updateConfig.
Updates == UpdatesOf(MaxUpdateKeys)

\* JavaScript's test `if (object.key)`: the key is there and its string is
\* not empty.
truthy(object, key) == key \in DOMAIN object /\ object[key] # ""

\* { ...a, ...b }
spread(a, b) ==
    [key \in DOMAIN a \cup DOMAIN b |->
        IF key \in DOMAIN b THEN b[key] ELSE a[key]]

\* sanitizeModelSelection(model, provider)
sanitizeModelSelection(model, provider) ==
    IF provider = "gemini"
    THEN IF model \notin GEMINI_MODELS THEN "gemini-2.5-flash" ELSE model
    ELSE model

\* loadConfig(): the providers that are missing are taken from apiProvider,
\* the models that are set are sanitized, the defaults fill in the rest. A
\* file that cannot be read or parsed gives the defaults.
loadConfig(file, readOk) ==
    IF ~readOk THEN defaultConfig
    ELSE LET migrated ==
                 [key \in DOMAIN file \cup ProviderKeys |->
                     IF key \in ProviderKeys /\ ~truthy(file, key)
                     THEN IF truthy(file, "apiProvider")
                          THEN file["apiProvider"] ELSE "gemini"
                     ELSE file[key]]
             sanitized ==
                 [key \in DOMAIN migrated |->
                     IF key \in ModelKeys /\ migrated[key] # ""
                     THEN sanitizeModelSelection(
                              migrated[key],
                              migrated[providerKey(stepOf(key))])
                     ELSE migrated[key]]
         IN spread(defaultConfig, sanitized)

\* updateConfig, the sync of the step providers with a changed apiProvider.
syncProviders(updates, currentConfig) ==
    IF /\ truthy(updates, "apiProvider")
       /\ updates["apiProvider"] # currentConfig["apiProvider"]
    THEN [key \in DOMAIN updates \cup ProviderKeys |->
             IF key \in ProviderKeys /\ ~truthy(updates, key)
             THEN updates["apiProvider"]
             ELSE updates[key]]
    ELSE updates

\* The model a step is given when its provider changes to newProvider.
resetModel(newProvider, currentConfig) ==
    IF newProvider = "lmstudio"
    THEN IF currentConfig["lmstudioModel"] # ""
         THEN currentConfig["lmstudioModel"] ELSE "qwen3-vl-8b"
    ELSE "gemini-2.0-flash"

\* A reset that leaves a model the update names as it is.
handleProviderChange_KeepsNamed(updates, currentConfig, step) ==
    IF /\ truthy(updates, providerKey(step))
       /\ updates[providerKey(step)] # currentConfig[providerKey(step)]
       /\ modelKey(step) \notin DOMAIN updates
    THEN [key \in DOMAIN updates \cup {modelKey(step)} |->
             IF key = modelKey(step)
             THEN resetModel(updates[providerKey(step)], currentConfig)
             ELSE updates[key]]
    ELSE updates

\* `if (updates.${step}Provider) handleProviderChange(step, ...)`: the
\* updates afterwards.
handleProviderChange(updates, currentConfig, step) ==
    IF /\ truthy(updates, providerKey(step))
       /\ updates[providerKey(step)] # currentConfig[providerKey(step)]
    THEN [key \in DOMAIN updates \cup {modelKey(step)} |->
             IF key = modelKey(step)
             THEN resetModel(updates[providerKey(step)], currentConfig)
             ELSE updates[key]]
    ELSE updates

\* updateConfig, the sanitizing of the models the updates hold, by the
\* providers of the merged configuration.
sanitizeUpdates(updates, mergedConfig) ==
    [key \in DOMAIN updates |->
        IF key \in ModelKeys /\ updates[key] # ""
        THEN sanitizeModelSelection(updates[key],
                                    mergedConfig[providerKey(stepOf(key))])
        ELSE updates[key]]

\* updateConfig(updates): newConfig.
updateConfig(file, updates, readOk) ==
    LET currentConfig == loadConfig(file, readOk)
        synced == syncProviders(updates, currentConfig)
        reset == handleProviderChange(
                     handleProviderChange(
                         handleProviderChange(synced, currentConfig,
                                              "extraction"),
                         currentConfig, "solution"),
                     currentConfig, "debugging")
        mergedConfig == spread(currentConfig, reset)
    IN spread(currentConfig, sanitizeUpdates(reset, mergedConfig))

\* Configurations config.json may hold when the program starts: the
\* defaults, and what an update of one key in an earlier session made of
\* them.
StoredConfigs == {updateConfig(defaultConfig, u, TRUE) : u \in UpdatesOf(1)}

\* ---------------------------------------------------------- construction
\* The field initialisers: empty queues, the view "queue", nothing in flight.
HelperFieldsInit ==
    /\ view = "queue"
    /\ screenshotQueue = <<>>
    /\ extraScreenshotQueue = <<>>
    /\ heldMain = NotHeld
    /\ heldExtra = NotHeld
    /\ pendingUnlinks = <<>>
    /\ nextId = 1
    /\ spent = 0
    /\ pc = [c \in Procs |-> "idle"]
    /\ ppath = [c \in Procs |-> NoPath]
    /\ premoved = [c \in Procs |-> NoPath]
    /\ dpc = "idle"
    /\ dpath = NoPath
    /\ dprev = ""
    /\ ret = NoRet
    /\ opc = "idle"
    /\ attempt = 0
    /\ errors = <<>>
    /\ calls = <<>>
    /\ sleeps = <<>>
    /\ tempFile = <<>>
    /\ oresult = NoResult
    /\ late = {}
    /\ cleanups = 0
    /\ pview = [c \in Procs |-> "queue"]
    /\ written = <<>>
    /\ gpc = "idle"
    /\ gpath = NoPath
    /\ vresult = <<>>
    /\ pbuf = [c \in Procs |-> EmptyBuf]
    /\ kcall = <<>>

\* The same, with the config.json ensureConfigExists writes where there is
\* none.
FieldsInit ==
    /\ HelperFieldsInit
    /\ configFile = defaultConfig

\* ensureDirectoriesExist: the directories afterwards; a mkdirSync that
\* throws is logged and leaves its directory missing.
ensureDirectoriesExist(ds, mkdirFails) == ds \cup (AllDirs \ mkdirFails)

\* cleanScreenshotDirectories: the directories whose listing is walked. A
\* readdirSync that throws ends the whole method, so a failure on the main
\* directory leaves the extra directory unread.
cleanedDirs(ds, readdirFails) ==
    IF screenshotDir \in ds /\ screenshotDir \in readdirFails
    THEN {}
    ELSE (ArtifactDirs \cap ds) \ readdirFails

\* cleanScreenshotDirectories: the files it unlinks in directory d.
stalePngs(fs, d) == {f \in fs : f.dir = d /\ endsWith(f.name, PngExt)}

\* new ScreenshotHelper(v), with the OS-level failures it meets: mkdirSync on
\* mkdirFails, readdirSync on readdirFails, unlinkSync on unlinkFails. Each
\* failure is caught and logged.
Construct(v, mkdirFails, readdirFails, unlinkFails) ==
    /\ phase = "new"
    /\ mkdirFails \subseteq AllDirs \ dirs
    /\ unlinkFails \subseteq files
    /\ LET ensured == ensureDirectoriesExist(dirs, mkdirFails)
           cleaned == cleanedDirs(ensured, readdirFails)
           stale == UNION {stalePngs(files, d) : d \in cleaned}
           faults == Cardinality(mkdirFails) + Cardinality(readdirFails)
                     + Cardinality(unlinkFails)
       IN /\ readdirFails \subseteq ArtifactDirs \cap ensured
          /\ unlinkFails \subseteq stale
          /\ spent + faults <= cfg.maxDisturb
          /\ spent' = spent + faults
          /\ dirs' = ensured
          /\ files' = files \ (stale \ unlinkFails)
    /\ view' = v
    /\ phase' = "ready"
    /\ ret' = NoRet
    /\ UNCHANGED <<cfg, kvars, startFiles, ovars, late, cleanups, pview, vvars,
                   gvars, platform, pbuf, hvars, qvars, pendingUnlinks, cvars,
                   dvars, nextId>>

\* The state after construction on a disk without stale files: an artifact
\* directory is missing when the constructor's mkdirSync failed. The
\* temporary directory plays no part in the operations on the queues. The
\* platform is one where captureScreenshot takes the buffer of screenshot()
\* as it comes; what captureWindowsScreenshot returns is among these buffers.
StoreInit ==
    /\ FieldsInit
    /\ phase = "ready"
    /\ startFiles = {}
    /\ dirs \in {ds \cup {tempDir} : ds \in SUBSET ArtifactDirs}
    /\ files = {}
    /\ tempFiles = {}
    /\ vbuf = EmptyBuf
    /\ platform = "linux"

\* A setView that empties the queue it leaves.
SetView_Clears(v) ==
    /\ view' = v
    /\ screenshotQueue' = IF v = "queue" THEN screenshotQueue ELSE <<>>
    /\ ret' = NoRet
    /\ UNCHANGED <<env, hvars, extraScreenshotQueue, fsvars, cvars, dvars,
                   nextId, spent>>

\* setView
SetView(v) ==
    /\ view' = v
    /\ ret' = NoRet
    /\ UNCHANGED <<env, hvars, qvars, fsvars, cvars, dvars, nextId, spent>>

\* takeScreenshot, up to `await this.captureScreenshot()`.
TakeScreenshot(c) ==
    /\ pc[c] = "idle"
    /\ nextId + Cardinality({d \in Procs : pc[d] = "capturing"})
         <= cfg.maxPaths
    /\ pc' = [pc EXCEPT ![c] = "capturing"]
    /\ cleanups' = 0
    /\ pview' = IF cfg.views THEN [pview EXCEPT ![c] = view] ELSE pview
    /\ ret' = NoRet
    /\ UNCHANGED <<envc, pbuf, gvars, hvars, view, qvars, fsvars, ppath,
                   premoved, dvars, nextId, spent>>

\* takeScreenshot rejects: `throw error` in its catch block.
Throw(c, msg) ==
    /\ pc' = [pc EXCEPT ![c] = "idle"]
    /\ ppath' = [ppath EXCEPT ![c] = NoPath]
    /\ ret' = Ret("takeScreenshot", c, FALSE, NoPath, msg, "")

\* takeScreenshot returns screenshotPath.
Return(c) ==
    /\ pc' = [pc EXCEPT ![c] = "idle"]
    /\ ppath' = [ppath EXCEPT ![c] = NoPath]
    /\ premoved' = [premoved EXCEPT ![c] = NoPath]
    /\ ret' = Ret("takeScreenshot", c, TRUE, ppath[c], "", "")

\* captureScreenshot() rejects.
CaptureFails(c) ==
    /\ pc[c] = "capturing"
    /\ Throw(c, "Failed to capture screenshot")
    /\ UNCHANGED <<env, hvars, view, qvars, fsvars, premoved, dvars, nextId, spent>>

\* A takeScreenshot that drops the newest path of the main queue when it
\* rejects the buffer.
CaptureRejected_Drops(c, buffer) ==
    /\ pc[c] = "capturing"
    /\ buffer.len = 0 \/ ~isValidPng(buffer)
    /\ Throw(c, IF buffer.len = 0
                THEN "Screenshot capture returned empty buffer"
                ELSE "Captured screenshot is not a valid PNG")
    /\ screenshotQueue' = SubSeq(screenshotQueue, 1, Len(screenshotQueue) - 1)
    /\ UNCHANGED <<env, hvars, view, extraScreenshotQueue, fsvars, premoved,
                   dvars, nextId, spent>>

\* captureScreenshot() resolves with a buffer that fails one of the two
\* checks of takeScreenshot.
CaptureRejected(c, buffer) ==
    /\ pc[c] = "capturing"
    /\ buffer.len = 0 \/ ~isValidPng(buffer)
    /\ Throw(c, IF buffer.len = 0
                THEN "Screenshot capture returned empty buffer"
                ELSE "Captured screenshot is not a valid PNG")
    /\ UNCHANGED <<env, hvars, view, qvars, fsvars, premoved, dvars, nextId, spent>>

\* A takeScreenshot that chooses the directory by the view it found when it
\* was called.
CaptureReturns_CallView(c, buffer, mkdirOk) ==
    /\ pc[c] = "capturing"
    /\ buffer.len # 0 /\ isValidPng(buffer)
    /\ LET dir == targetDir(pview[c])
           screenshotPath == MkPath(dir, nextId)
       IN /\ nextId' = nextId + 1
          /\ IF dir \in dirs
             THEN /\ mkdirOk
                  /\ pc' = [pc EXCEPT ![c] = "writing"]
                  /\ ppath' = [ppath EXCEPT ![c] = screenshotPath]
                  /\ ret' = NoRet
                  /\ UNCHANGED <<dirs, spent>>
             ELSE IF mkdirOk
             THEN /\ dirs' = dirs \cup {dir}
                  /\ pc' = [pc EXCEPT ![c] = "writing"]
                  /\ ppath' = [ppath EXCEPT ![c] = screenshotPath]
                  /\ ret' = NoRet
                  /\ UNCHANGED spent
             ELSE /\ CanDisturb
                  /\ spent' = spent + 1
                  /\ Throw(c, "mkdir failed")
                  /\ UNCHANGED dirs
    /\ pbuf' = IF cfg.track THEN [pbuf EXCEPT ![c] = buffer] ELSE pbuf
    /\ UNCHANGED <<envc, cleanups, pview, gvars, hvars, view, qvars, files,
                   pendingUnlinks, premoved, dvars>>

\* captureScreenshot() resolves with a buffer that passes: the choice of the
\* directory by the view, mkdir, up to `await fs.promises.writeFile`.
CaptureReturns(c, buffer, mkdirOk) ==
    /\ pc[c] = "capturing"
    /\ buffer.len # 0 /\ isValidPng(buffer)
    /\ LET dir == targetDir(view)
           screenshotPath == MkPath(dir, nextId)
       IN /\ nextId' = nextId + 1
          /\ IF dir \in dirs
             THEN /\ mkdirOk
                  /\ pc' = [pc EXCEPT ![c] = "writing"]
                  /\ ppath' = [ppath EXCEPT ![c] = screenshotPath]
                  /\ ret' = NoRet
                  /\ UNCHANGED <<dirs, spent>>
             ELSE IF mkdirOk
             THEN /\ dirs' = dirs \cup {dir}
                  /\ pc' = [pc EXCEPT ![c] = "writing"]
                  /\ ppath' = [ppath EXCEPT ![c] = screenshotPath]
                  /\ ret' = NoRet
                  /\ UNCHANGED spent
             ELSE /\ CanDisturb
                  /\ spent' = spent + 1
                  /\ Throw(c, "mkdir failed")
                  /\ UNCHANGED dirs
    /\ pbuf' = IF cfg.track THEN [pbuf EXCEPT ![c] = buffer] ELSE pbuf
    /\ UNCHANGED <<envc, cleanups, pview, gvars, hvars, view, qvars, files,
                   pendingUnlinks, premoved, dvars>>

\* A write after which the bound is applied to both queues together: the
\* queue shifts when the two hold more than MAX_SCREENSHOTS paths.
WriteDone_SharedBound(c) ==
    /\ pc[c] = "writing"
    /\ files' = files \cup {ppath[c]}
    /\ LET main == ppath[c].dir = screenshotDir
           q == IF main THEN screenshotQueue ELSE extraScreenshotQueue
           over == Len(screenshotQueue) + Len(extraScreenshotQueue) + 1
                      > MAX_SCREENSHOTS
           r == IF over
                THEN [queue |-> Tail(Append(q, ppath[c])),
                      removed |-> Head(Append(q, ppath[c]))]
                ELSE [queue |-> Append(q, ppath[c]), removed |-> NoPath]
       IN /\ IF main
             THEN /\ screenshotQueue' = r.queue
                  /\ UNCHANGED extraScreenshotQueue
             ELSE /\ extraScreenshotQueue' = r.queue
                  /\ UNCHANGED screenshotQueue
          /\ IF r.removed # NoPath /\ r.removed # ppath[c]
             THEN /\ premoved' = [premoved EXCEPT ![c] = r.removed]
                  /\ pc' = [pc EXCEPT ![c] = "evicting"]
                  /\ ret' = NoRet
                  /\ UNCHANGED ppath
             ELSE Return(c)
    /\ written' = written
    /\ UNCHANGED <<envc, pbuf, cleanups, pview, gpc, gpath, hvars, view, dirs,
                   pendingUnlinks, dvars, nextId, spent>>

\* A push into the queue of the view as it is when writeFile resolves.
WriteDone_ViewAtPush(c) ==
    /\ pc[c] = "writing"
    /\ files' = files \cup {ppath[c]}
    /\ LET main == view = "queue"
           r == pushAndShift(IF main THEN screenshotQueue
                             ELSE extraScreenshotQueue, ppath[c])
       IN /\ IF main
             THEN /\ screenshotQueue' = r.queue
                  /\ UNCHANGED extraScreenshotQueue
             ELSE /\ extraScreenshotQueue' = r.queue
                  /\ UNCHANGED screenshotQueue
          /\ IF r.removed # NoPath
             THEN /\ premoved' = [premoved EXCEPT ![c] = r.removed]
                  /\ pc' = [pc EXCEPT ![c] = "evicting"]
                  /\ ret' = NoRet
                  /\ UNCHANGED ppath
             ELSE Return(c)
    /\ written' = IF cfg.bytes
                  THEN [p \in DOMAIN written \cup {ppath[c]} |->
                           IF p = ppath[c] THEN pbuf[c] ELSE written[p]]
                  ELSE written
    /\ UNCHANGED <<envc, pbuf, cleanups, pview, gpc, gpath, hvars, view, dirs,
                   pendingUnlinks, dvars, nextId, spent>>

\* fs.promises.writeFile resolves: push, shift over the bound, up to
\* `await fs.promises.unlink(removedPath)` or to the return.
WriteDone(c) ==
    /\ pc[c] = "writing"
    /\ files' = files \cup {ppath[c]}
    /\ LET main == ppath[c].dir = screenshotDir
           r == pushAndShift(IF main THEN screenshotQueue
                             ELSE extraScreenshotQueue, ppath[c])
       IN /\ IF main
             THEN /\ screenshotQueue' = r.queue
                  /\ UNCHANGED extraScreenshotQueue
             ELSE /\ extraScreenshotQueue' = r.queue
                  /\ UNCHANGED screenshotQueue
          /\ IF r.removed # NoPath
             THEN /\ premoved' = [premoved EXCEPT ![c] = r.removed]
                  /\ pc' = [pc EXCEPT ![c] = "evicting"]
                  /\ ret' = NoRet
                  /\ UNCHANGED ppath
             ELSE Return(c)
    /\ written' = IF cfg.bytes
                  THEN [p \in DOMAIN written \cup {ppath[c]} |->
                           IF p = ppath[c] THEN pbuf[c] ELSE written[p]]
                  ELSE written
    /\ UNCHANGED <<envc, pbuf, cleanups, pview, gpc, gpath, hvars, view, dirs,
                   pendingUnlinks, dvars, nextId, spent>>

\* A failed write after which the path is queued all the same.
WriteFails_Queued(c) ==
    /\ pc[c] = "writing"
    /\ CanDisturb
    /\ spent' = spent + 1
    /\ screenshotQueue' = Append(screenshotQueue, ppath[c])
    /\ Throw(c, "write failed")
    /\ UNCHANGED <<env, hvars, view, extraScreenshotQueue, fsvars, premoved,
                   dvars, nextId>>

\* fs.promises.writeFile rejects.
WriteFails(c) ==
    /\ pc[c] = "writing"
    /\ CanDisturb
    /\ spent' = spent + 1
    /\ Throw(c, "write failed")
    /\ UNCHANGED <<env, hvars, view, qvars, fsvars, premoved, dvars, nextId>>

\* An fs unlink of path p runs: the files after it.  It fails with ENOENT
\* when the file is gone; an existing file is removed unless the OS refuses
\* (unlinkOk false, a disturbance).
UnlinkRuns(p, unlinkOk) ==
    IF unlinkOk
    THEN /\ p \in files
         /\ files' = files \ {p}
         /\ UNCHANGED spent
    ELSE /\ p \in files => CanDisturb
         /\ spent' = IF p \in files THEN spent + 1 ELSE spent
         /\ UNCHANGED files

\* An eviction whose failed unlink makes takeScreenshot throw.
EvictDone_Fatal(c, unlinkOk) ==
    /\ pc[c] = "evicting"
    /\ UnlinkRuns(premoved[c], unlinkOk)
    /\ IF unlinkOk
       THEN Return(c)
       ELSE Throw(c, "unlink failed") /\ UNCHANGED premoved
    /\ UNCHANGED <<env, hvars, view, qvars, dirs, pendingUnlinks, dvars, nextId>>

\* fs.promises.unlink(removedPath) settles; a rejection is only logged.
EvictDone(c, unlinkOk) ==
    /\ pc[c] = "evicting"
    /\ UnlinkRuns(premoved[c], unlinkOk)
    /\ Return(c)
    /\ UNCHANGED <<env, hvars, view, qvars, dirs, pendingUnlinks, dvars, nextId>>

\* The paths a caller hands to deleteScreenshot: those it sees in a queue or
\* on disk, and the one it has just deleted.
Known ==
    (files \cup Range(screenshotQueue) \cup Range(extraScreenshotQueue)
       \cup {ret.path}) \ {NoPath}

\* How the deleteScreenshot(path) that the step just taken returned from
\* ended, if there was one.
Prev(path) ==
    IF ret.op = "deleteScreenshot" /\ ret.path = path
    THEN (IF ret.ok THEN "success" ELSE "failure")
    ELSE ""

\* deleteScreenshot, up to `await fs.promises.unlink(path)`; to the return
\* when the file does not exist.
DeleteScreenshot(path) ==
    /\ dpc = "idle"
    /\ CanDisturb
    /\ spent' = spent + 1
    /\ path \in Known
    /\ IF path \in files
       THEN /\ dpc' = "unlinking"
            /\ dpath' = path
            /\ dprev' = Prev(path)
            /\ ret' = NoRet
            /\ UNCHANGED <<qvars, hvars>>
       ELSE LET r == afterDelete(view, screenshotQueue,
                                 extraScreenshotQueue, path)
            IN /\ screenshotQueue' = r.main
               /\ extraScreenshotQueue' = r.extra
               /\ Reassigned(view)
               /\ ret' = Ret("deleteScreenshot", "", TRUE, path, "",
                             Prev(path))
               /\ UNCHANGED dvars
    /\ UNCHANGED <<env, view, fsvars, cvars, nextId>>

\* deleteScreenshot after its unlink settled: the filter and
\* {success: true}, or the catch block's {success: false, error}.
DeleteDone(unlinkOk) ==
    /\ dpc = "unlinking"
    /\ dpc' = "idle"
    /\ dpath' = NoPath
    /\ dprev' = ""
    /\ UnlinkRuns(dpath, unlinkOk)
    /\ IF unlinkOk
       THEN /\ LET r == afterDelete(view, screenshotQueue,
                                    extraScreenshotQueue, dpath)
               IN /\ screenshotQueue' = r.main
                  /\ extraScreenshotQueue' = r.extra
            /\ Reassigned(view)
            /\ ret' = Ret("deleteScreenshot", "", TRUE, dpath, "", dprev)
       ELSE /\ ret' = Ret("deleteScreenshot", "", FALSE, dpath,
                          IF dpath \in files THEN "EPERM" ELSE "ENOENT",
                          dprev)
            /\ UNCHANGED <<qvars, hvars>>
    /\ UNCHANGED <<env, view, dirs, pendingUnlinks, cvars, nextId>>

\* A clearQueues that leaves the extra queue as it is.
ClearQueues_KeepsExtra ==
    /\ CanDisturb
    /\ spent' = spent + 1
    /\ pendingUnlinks' = pendingUnlinks \o screenshotQueue
                           \o extraScreenshotQueue
    /\ screenshotQueue' = <<>>
    /\ heldMain' = Detach(heldMain, screenshotQueue)
    /\ ret' = Ret("clearQueues", "", TRUE, NoPath, "", "")
    /\ UNCHANGED <<env, view, extraScreenshotQueue, heldExtra, dirs, files,
                   cvars, dvars, nextId>>

\* clearQueues: an fs.unlink per path of each queue, both queues emptied.
ClearQueues ==
    /\ CanDisturb
    /\ spent' = spent + 1
    /\ pendingUnlinks' = pendingUnlinks \o screenshotQueue
                           \o extraScreenshotQueue
    /\ screenshotQueue' = <<>>
    /\ extraScreenshotQueue' = <<>>
    /\ heldMain' = Detach(heldMain, screenshotQueue)
    /\ heldExtra' = Detach(heldExtra, extraScreenshotQueue)
    /\ ret' = Ret("clearQueues", "", TRUE, NoPath, "", "")
    /\ UNCHANGED <<env, view, dirs, files, cvars, dvars, nextId>>

\* A clearExtraScreenshotQueue that clears the main queue as well.
ClearExtraScreenshotQueue_Both ==
    /\ CanDisturb
    /\ spent' = spent + 1
    /\ pendingUnlinks' = pendingUnlinks \o
           SelectSeq(screenshotQueue \o extraScreenshotQueue,
                     LAMBDA p : p \in files)
    /\ screenshotQueue' = <<>>
    /\ extraScreenshotQueue' = <<>>
    /\ heldMain' = Detach(heldMain, screenshotQueue)
    /\ heldExtra' = Detach(heldExtra, extraScreenshotQueue)
    /\ ret' = Ret("clearExtraScreenshotQueue", "", TRUE, NoPath, "", "")
    /\ UNCHANGED <<env, view, dirs, files, cvars, dvars, nextId>>

\* clearExtraScreenshotQueue: an fs.unlink per path whose file exists.
ClearExtraScreenshotQueue ==
    /\ CanDisturb
    /\ spent' = spent + 1
    /\ pendingUnlinks' = pendingUnlinks \o
           SelectSeq(extraScreenshotQueue, LAMBDA p : p \in files)
    /\ extraScreenshotQueue' = <<>>
    /\ heldExtra' = Detach(heldExtra, extraScreenshotQueue)
    /\ UNCHANGED heldMain
    /\ ret' = Ret("clearExtraScreenshotQueue", "", TRUE, NoPath, "", "")
    /\ UNCHANGED <<env, view, screenshotQueue, dirs, files, cvars, dvars,
                   nextId>>

\* The oldest fs.unlink issued by a clear runs; its callback only logs an
\* error.
UnlinkCallback(unlinkOk) ==
    /\ pendingUnlinks # <<>>
    /\ pendingUnlinks' = Tail(pendingUnlinks)
    /\ UnlinkRuns(Head(pendingUnlinks), unlinkOk)
    /\ ret' = NoRet
    /\ UNCHANGED <<env, hvars, view, qvars, dirs, cvars, dvars, nextId>>

\* ------------------------------------------- captureWindowsScreenshot
\* The two strategies: 1 is screenshot-desktop, 2 is PowerShell.
Methods == {1, 2}

\* The files that may lie in the temporary directory when a capture starts:
\* one older than the retention threshold, one exactly as old.
StartTemps ==
    {[name |-> <<"temp-", "u8">> \o PngExt, age |-> StaleAfterMs + 1],
     [name |-> <<"ps-temp-", "u9">> \o PngExt, age |-> StaleAfterMs]}

\* The files that may lie there when the cleaner is looked at alone: ages
\* from fresh to twice the threshold, two of them beyond it.
CleanTemps ==
    {[name |-> <<"temp-", u>> \o PngExt, age |-> a] :
        <<u, a>> \in {<<"u5", 0>>, <<"u6", StaleAfterMs - 1>>,
                      <<"u7", 2 * StaleAfterMs>>}}
    \cup StartTemps

\* A cleaner that deletes from the threshold on: >= for >.
cleanupTempFiles_AtLeast(ds, tfs, fails, readdirOk) ==
    IF tempDir \in ds /\ readdirOk
    THEN {f \in tfs : ~(f.age >= StaleAfterMs) \/ f \in fails}
    ELSE tfs

\* cleanupTempFiles: the temporary files it leaves; statSync or unlinkSync
\* throws on the files of fails, which is ignored. A readdirSync that
\* throws (readdirOk false) is logged by the outer catch and ends the pass.
cleanupTempFiles(ds, tfs, fails, readdirOk) ==
    IF tempDir \in ds /\ readdirOk
    THEN {f \in tfs : ~(f.age > StaleAfterMs) \/ f \in fails}
    ELSE tfs

\* path.join(this.tempDir, `temp-${uuidv4()}.png`), and `ps-temp-` for
\* strategy 2.
tempName(method, n) ==
    <<IF method = 1 THEN "temp-" ELSE "ps-temp-", uuidv4(n)>> \o PngExt

\* What a strategy's promise under withTimeout may do: the timer fires
\* first, the promise rejects, or it resolves; the temp file was written with
\* some buffer or not; reading it back fails.
Outcomes ==
    {[kind |-> k, wrote |-> w, buffer |-> EmptyBuf] :
        k \in {"timeout", "rejected"}, w \in BOOLEAN}
    \cup {[kind |-> "resolved", wrote |-> FALSE, buffer |-> EmptyBuf]}
    \cup {[kind |-> k, wrote |-> TRUE, buffer |-> b] :
             k \in {"resolved", "unreadable"}, b \in WinBuffers}

\* The message of the error a strategy ends with, "" when it ends well.
verdict(method, o) ==
    IF o.kind = "timeout"
    THEN IF method = 1
         THEN "screenshot-desktop timed out after 5 seconds"
         ELSE "PowerShell screenshot timed out after 10 seconds"
    ELSE IF o.kind = "rejected"
    THEN IF method = 1 THEN "screenshot failed" ELSE "Command failed"
    ELSE IF ~o.wrote
    THEN IF method = 1
         THEN "Screenshot file not created"
         ELSE "PowerShell screenshot file not created"
    ELSE IF o.kind = "unreadable"
    THEN "EACCES"
    ELSE IF ~isValidPng(o.buffer)
    THEN IF method = 1
         THEN "Invalid PNG format"
         ELSE "Invalid PNG format from PowerShell"
    ELSE IF o.buffer.len < MinScreenshotBytes
    THEN IF method = 1
         THEN "Screenshot too small - likely invalid"
         ELSE "PowerShell screenshot too small - likely invalid"
    ELSE ""

\* An entry of the errors array tagged with a later attempt.
errorEntry_NextAttempt(method, n, msg) ==
    [method |-> method, attempt |-> n + 1, msg |-> msg]

\* `Method ${method} (attempt ${attempt}): ${errorMsg}`
errorEntry(method, n, msg) ==
    [method |-> method, attempt |-> n, msg |-> msg]

\* A loop that stops one round early.
loopContinues_Less(n) == n < maxRetries

\* for (...; attempt <= maxRetries; ...)
loopContinues(n) == n <= maxRetries

\* A test that lets a sleep follow the last round too.
backoffDue_Always(n) == n <= maxRetries

\* if (attempt < maxRetries), before the backoff sleep
backoffDue(n) == n < maxRetries

\* 200 * Math.pow(2, attempt - 1)
backoffDelay(n) == backoffBaseMs * 2 ^ (n - 1)

\* A strategy invocation, and the same once it has ended.
Call(method, n) ==
    [method |-> method, attempt |-> n, outcome |-> "pending",
     buffer |-> EmptyBuf, file |-> tempName(method, nextId)]
Settled(cs, outcome, buffer) ==
    [cs EXCEPT ![Len(cs)].outcome = outcome, ![Len(cs)].buffer = buffer]

\* A strategy whose temp file is gone when it has ended, however it ended.
Written_Removed(o) == tempFiles \ {[name |-> tempFile, age |-> 0]}

\* The temporary files once the strategy in flight has ended with o.
Written(o) ==
    IF o.wrote THEN tempFiles \cup {[name |-> tempFile, age |-> 0]}
    ELSE tempFiles

\* The variables of the service that captureWindowsScreenshot leaves alone.
storeVars ==
    <<cfg, kvars, phase, startFiles, late, vvars, gvars, platform, pbuf, pview,
      hvars, view, qvars, fsvars, cvars, dvars, ret>>

\* The strategy met an OS-level failure: a promise that timed out or
\* rejected had written its file, the file cannot be read back, or cannot be
\* unlinked. Such failures are counted as disturbances.
Disturbed(o, unlinkOk) ==
    \/ o.kind \in {"timeout", "rejected"} /\ o.wrote
    \/ o.kind = "unreadable"
    \/ ~unlinkOk
Disturb(n) ==
    /\ spent + n <= cfg.maxDisturb
    /\ spent' = spent + n

\* A loop head that invokes strategy 2 where strategy 1 is due.
NextAttempt_Strategy2First(n, errs, cs) ==
    /\ attempt' = n
    /\ errors' = errs
    /\ IF loopContinues(n)
       THEN /\ opc' = "method2"
            /\ calls' = Append(cs, Call(2, n))
            /\ tempFile' = tempName(2, nextId)
            /\ nextId' = nextId + 1
            /\ UNCHANGED oresult
       ELSE /\ opc' = "done"
            /\ calls' = cs
            /\ oresult' = [ok |-> FALSE, buffer |-> EmptyBuf, method |-> 0,
                           errors |-> errs]
            /\ UNCHANGED <<tempFile, nextId>>

\* The loop head with attempt = n, errs and cs being the errors array and
\* the invocations so far: strategy 1 is invoked, or the loop is over and
\* the method throws with the errors joined.
NextAttempt(n, errs, cs) ==
    /\ attempt' = n
    /\ errors' = errs
    /\ IF loopContinues(n)
       THEN /\ opc' = "method1"
            /\ calls' = Append(cs, Call(1, n))
            /\ tempFile' = tempName(1, nextId)
            /\ nextId' = nextId + 1
            /\ UNCHANGED oresult
       ELSE /\ opc' = "done"
            /\ calls' = cs
            /\ oresult' = [ok |-> FALSE, buffer |-> EmptyBuf, method |-> 0,
                           errors |-> errs]
            /\ UNCHANGED <<tempFile, nextId>>

\* captureWindowsScreenshot(): cleanupTempFiles, then the first round.
CaptureWindowsScreenshot(cleanupFails, readdirOk) ==
    /\ opc = "idle"
    /\ cleanupFails \subseteq tempFiles
    /\ ~readdirOk => tempDir \in dirs /\ cleanupFails = {}
    /\ tempFiles' = cleanupTempFiles(dirs, tempFiles, cleanupFails, readdirOk)
    /\ Disturb(Cardinality(cleanupFails) + IF readdirOk THEN 0 ELSE 1)
    /\ cleanups' = cleanups + 1
    /\ NextAttempt(1, <<>>, <<>>)
    /\ UNCHANGED <<sleeps, storeVars>>

\* A success after which the loop goes on to its backoff sleep.
MethodSucceeds_KeepsGoing(method, o, unlinkOk) ==
    /\ tempFiles' = IF unlinkOk
                    THEN Written(o) \ {[name |-> tempFile, age |-> 0]}
                    ELSE Written(o)
    /\ calls' = Settled(calls, "succeeded", o.buffer)
    /\ opc' = "backoff"
    /\ oresult' = [ok |-> TRUE, buffer |-> o.buffer, method |-> method,
                   errors |-> <<>>]
    /\ UNCHANGED <<attempt, errors, sleeps, tempFile, nextId>>

\* The strategy in flight ends well: the temp file is unlinked (a failure is
\* logged) and its buffer returned.
MethodSucceeds(method, o, unlinkOk) ==
    /\ tempFiles' = IF unlinkOk
                    THEN Written(o) \ {[name |-> tempFile, age |-> 0]}
                    ELSE Written(o)
    /\ calls' = Settled(calls, "succeeded", o.buffer)
    /\ opc' = "done"
    /\ oresult' = [ok |-> TRUE, buffer |-> o.buffer, method |-> method,
                   errors |-> <<>>]
    /\ UNCHANGED <<attempt, errors, sleeps, tempFile, nextId>>

\* Strategy 1 ends with o: on an error the entry is pushed and strategy 2
\* invoked.
Method1Settles(o, unlinkOk) ==
    /\ opc = "method1"
    /\ o.wrote => tempDir \in dirs
    /\ Disturb(IF Disturbed(o, unlinkOk) THEN 1 ELSE 0)
    /\ IF verdict(1, o) = ""
       THEN MethodSucceeds(1, o, unlinkOk)
       ELSE /\ unlinkOk
            /\ tempFiles' = Written(o)
            /\ errors' = Append(errors, errorEntry(1, attempt, verdict(1, o)))
            /\ calls' = Append(Settled(calls, "failed", EmptyBuf),
                               Call(2, attempt))
            /\ opc' = "method2"
            /\ tempFile' = tempName(2, nextId)
            /\ nextId' = nextId + 1
            /\ UNCHANGED <<attempt, sleeps, oresult>>
    /\ UNCHANGED <<cleanups, storeVars>>

\* Strategy 2 ends with o: on an error the entry is pushed, then comes the
\* backoff sleep or, in the last round, the end of the loop.
Method2Settles(o, unlinkOk) ==
    /\ opc = "method2"
    /\ o.wrote => tempDir \in dirs
    /\ Disturb(IF Disturbed(o, unlinkOk) THEN 1 ELSE 0)
    /\ IF verdict(2, o) = ""
       THEN MethodSucceeds(2, o, unlinkOk)
       ELSE LET errs == Append(errors,
                               errorEntry(2, attempt, verdict(2, o)))
                cs == Settled(calls, "failed", EmptyBuf)
            IN /\ unlinkOk
               /\ tempFiles' = Written(o)
               /\ IF backoffDue(attempt)
                  THEN /\ opc' = "backoff"
                       /\ sleeps' = Append(sleeps, backoffDelay(attempt))
                       /\ errors' = errs
                       /\ calls' = cs
                       /\ UNCHANGED <<attempt, tempFile, oresult, nextId>>
                  ELSE /\ NextAttempt(attempt + 1, errs, cs)
                       /\ UNCHANGED sleeps
    /\ UNCHANGED <<cleanups, storeVars>>

\* The backoff timer fires: attempt++, and the loop head.
BackoffDone ==
    /\ opc = "backoff"
    /\ NextAttempt(attempt + 1, errors, calls)
    /\ UNCHANGED <<sleeps, tempFiles, spent, cleanups, storeVars>>

\* The messages withTimeout rejects with when its timer fires.
TimeoutMessages ==
    {"screenshot-desktop timed out after 5 seconds",
     "PowerShell screenshot timed out after 10 seconds"}

\* The invocations that ended by their timer: the promise of the strategy
\* is still pending unless it has settled since.
TimedOut ==
    {i \in 1..Len(errors) : errors[i].msg \in TimeoutMessages}

\* A late result that takes the place of what the capture returned.
LateSettles_Overrides(i, wrote) ==
    /\ i \in TimedOut \ late
    /\ wrote => tempDir \in dirs
    /\ Disturb(1)
    /\ late' = late \cup {i}
    /\ tempFiles' = IF wrote
                    THEN tempFiles \cup {[name |-> calls[i].file, age |-> 0]}
                    ELSE tempFiles
    /\ oresult' = [ok |-> TRUE, buffer |-> GoodPng,
                   method |-> calls[i].method, errors |-> <<>>]
    /\ UNCHANGED <<opc, attempt, errors, calls, sleeps, tempFile, nextId,
                   cleanups, pview, cfg, kvars, phase, startFiles, vvars, gvars,
                   platform, pbuf, hvars, view, qvars, fsvars, cvars, dvars,
                   ret>>

\* The promise of a strategy settles after its timer has fired: then() or
\* catch() of withTimeout calls resolve or reject on a promise that is
\* settled already, which does nothing. The strategy may have written its
\* temp file in the meantime.
LateSettles(i, wrote) ==
    /\ i \in TimedOut \ late
    /\ wrote => tempDir \in dirs
    /\ Disturb(1)
    /\ late' = late \cup {i}
    /\ tempFiles' = IF wrote
                    THEN tempFiles \cup {[name |-> calls[i].file, age |-> 0]}
                    ELSE tempFiles
    /\ UNCHANGED <<opc, attempt, errors, calls, sleeps, tempFile, oresult,
                   nextId, cleanups, pview, cfg, kvars, phase, startFiles, vvars,
                   gvars, platform, pbuf, hvars, view, qvars, fsvars, cvars,
                   dvars, ret>>

\* ------------------------------------------------------ captureScreenshot
\* The message of the error captureWindowsScreenshot throws, in its parts:
\* `Could not capture screenshot after ${maxRetries} attempts. Errors:
\* ${errorSummary}`, the summary being the entries joined.
exhaustedError(errs) ==
    [parts |-> <<"Could not capture screenshot after ", ToString(maxRetries),
                 " attempts. Errors: ">>,
     errors |-> errs]

\* The catch block of captureScreenshot: a new Error with the message
\* `Failed to capture screenshot: ${errorMsg}`.
wrapError(e) ==
    [parts |-> <<"Failed to capture screenshot: ">> \o e.parts,
     errors |-> e.errors]

\* On win32 captureScreenshot awaits captureWindowsScreenshot().
WinStarts(c, cleanupFails, readdirOk) ==
    /\ platform = "win32"
    /\ pc[c] = "capturing"
    /\ CaptureWindowsScreenshot(cleanupFails, readdirOk)

\* A later takeScreenshot call awaits captureWindowsScreenshot(): a new
\* invocation, with its own attempt counter, errors array and results.
WinStartsAgain(c) ==
    /\ platform = "win32"
    /\ pc[c] = "capturing"
    /\ opc = "done"
    /\ cleanups = 0
    /\ tempFiles' = cleanupTempFiles(dirs, tempFiles, {}, TRUE)
    /\ cleanups' = cleanups + 1
    /\ sleeps' = <<>>
    /\ NextAttempt(1, <<>>, <<>>)
    /\ UNCHANGED <<spent, storeVars>>

\* Time passes: Date.now() moves on by ms, and every temp file is that much
\* older when cleanupTempFiles next compares `now - stats.mtimeMs`.
TimePasses(ms) ==
    /\ tempFiles # {}
    /\ \A f \in tempFiles : f.age + ms <= MaxAgeMs
    /\ tempFiles' = {[f EXCEPT !.age = f.age + ms] : f \in tempFiles}
    /\ UNCHANGED <<opc, attempt, errors, calls, sleeps, tempFile, oresult,
                   nextId, spent, cleanups, storeVars>>

\* captureWindowsScreenshot() returned a buffer: takeScreenshot goes on with
\* its two checks.
WinReturns(c, mkdirOk) ==
    /\ platform = "win32"
    /\ opc = "done"
    /\ cleanups > 0
    /\ oresult.ok
    /\ IF oresult.buffer.len = 0 \/ ~isValidPng(oresult.buffer)
       THEN mkdirOk /\ CaptureRejected(c, oresult.buffer)
       ELSE CaptureReturns(c, oresult.buffer, mkdirOk)

\* captureWindowsScreenshot() threw: captureScreenshot throws the wrapped
\* error, which takeScreenshot rethrows.
WinFails(c) ==
    /\ platform = "win32"
    /\ pc[c] = "capturing"
    /\ opc = "done"
    /\ cleanups > 0
    /\ ~oresult.ok
    /\ Throw(c, wrapError(exhaustedError(oresult.errors)))
    /\ UNCHANGED <<env, hvars, view, qvars, fsvars, premoved, dvars, nextId,
                   spent>>

\* Elsewhere captureScreenshot awaits screenshot({ format: "png" }) and
\* returns its buffer as it comes.
DirectFails(c) == platform # "win32" /\ CaptureFails(c)
DirectRejected(c, buffer) == platform # "win32" /\ CaptureRejected(c, buffer)
DirectReturns(c, buffer, mkdirOk) ==
    platform # "win32" /\ CaptureReturns(c, buffer, mkdirOk)

\* ---------------------------------------------------------- isValidPng
\* isValidPng(vbuf) is called and returns.
IsValidPngCall ==
    /\ vresult = <<>>
    /\ vresult' = <<isValidPng(vbuf)>>
    /\ UNCHANGED <<cfg, kvars, phase, startFiles, ovars, late, cleanups, pview,
                   vbuf, gvars, platform, pbuf, hvars, view, qvars, fsvars,
                   cvars, dvars, nextId, spent, ret>>

\* ------------------------------------------------------------- getters
\* getScreenshotQueue(): `return this.screenshotQueue`, the array itself.
GetScreenshotQueue ==
    /\ heldMain' = Alias
    /\ ret' = NoRet
    /\ UNCHANGED <<env, heldExtra, view, qvars, fsvars, cvars, dvars, nextId,
                   spent>>

\* getExtraScreenshotQueue(): `return this.extraScreenshotQueue`.
GetExtraScreenshotQueue ==
    /\ heldExtra' = Alias
    /\ ret' = NoRet
    /\ UNCHANGED <<env, heldMain, view, qvars, fsvars, cvars, dvars, nextId,
                   spent>>

\* The caller of getScreenshotQueue() calls pop() on the array it was given.
CallerPopsMain ==
    /\ heldMain.held
    /\ Len(HeldVal(heldMain, screenshotQueue)) > 0
    /\ IF heldMain.alias
       THEN /\ screenshotQueue' =
                  SubSeq(screenshotQueue, 1, Len(screenshotQueue) - 1)
            /\ UNCHANGED heldMain
       ELSE /\ heldMain' = [heldMain EXCEPT
                  !.val = SubSeq(heldMain.val, 1, Len(heldMain.val) - 1)]
            /\ UNCHANGED screenshotQueue
    /\ ret' = NoRet
    /\ UNCHANGED <<env, heldExtra, view, extraScreenshotQueue, fsvars, cvars,
                   dvars, nextId, spent>>

\* The caller of getExtraScreenshotQueue() calls pop() on the array it was
\* given.
CallerPopsExtra ==
    /\ heldExtra.held
    /\ Len(HeldVal(heldExtra, extraScreenshotQueue)) > 0
    /\ IF heldExtra.alias
       THEN /\ extraScreenshotQueue' =
                  SubSeq(extraScreenshotQueue, 1,
                         Len(extraScreenshotQueue) - 1)
            /\ UNCHANGED heldExtra
       ELSE /\ heldExtra' = [heldExtra EXCEPT
                  !.val = SubSeq(heldExtra.val, 1, Len(heldExtra.val) - 1)]
            /\ UNCHANGED extraScreenshotQueue
    /\ ret' = NoRet
    /\ UNCHANGED <<env, heldMain, view, screenshotQueue, fsvars, cvars,
                   dvars, nextId, spent>>

\* ------------------------------------------------------ getImagePreview
\* The four base64 digits (0..63) of three bytes.
sextets(b1, b2, b3) ==
    <<b1 \div 4, (b1 % 4) * 16 + b2 \div 16, (b2 % 16) * 4 + b3 \div 64,
      b3 % 64>>

\* Buffer.toString("base64"): four digits per three bytes, the last group
\* padded. Of the digits, those of the whole groups of the head are kept.
RECURSIVE base64Digits(_)
base64Digits(bytes) ==
    IF Len(bytes) < 3 THEN <<>>
    ELSE sextets(bytes[1], bytes[2], bytes[3])
           \o base64Digits(SubSeq(bytes, 4, Len(bytes)))
toBase64(buffer) ==
    [len |-> 4 * ((buffer.len + 2) \div 3), head |-> base64Digits(buffer.head)]

\* `data:image/png;base64,${data.toString("base64")}`
dataUri(buffer) ==
    [prefix |-> "data:image/png;base64,", len |-> toBase64(buffer).len,
     head |-> toBase64(buffer).head]

\* The paths a caller hands to getImagePreview: those it sees in a queue or
\* on disk, the one just returned to it, and one that names no file.
PreviewPaths == Known \cup {MkPath(screenshotDir, Len(Uuids))}

\* What getImagePreview returns.
PreviewRet(path, data) ==
    [Ret("getImagePreview", "", TRUE, path, "", "") EXCEPT !.data = data]

\* getImagePreview, up to `await fs.promises.readFile(filepath)`; to the
\* return of "" when existsSync finds no file.
GetImagePreview(path) ==
    /\ cfg.bytes
    /\ gpc = "idle"
    /\ path \in PreviewPaths
    /\ Disturb(1)
    /\ IF path \in files
       THEN /\ gpc' = "reading"
            /\ gpath' = path
            /\ ret' = NoRet
       ELSE /\ ret' = PreviewRet(path, EmptyString)
            /\ UNCHANGED <<gpc, gpath>>
    /\ UNCHANGED <<envc, pbuf, cleanups, pview, written, hvars, view, qvars, fsvars,
                   cvars, dvars, nextId>>

\* A readFile whose rejection getImagePreview lets through to its caller.
ReadDone_Throws(readOk) ==
    /\ gpc = "reading"
    /\ gpc' = "idle"
    /\ gpath' = NoPath
    /\ IF readOk
       THEN /\ gpath \in files
            /\ ret' = PreviewRet(gpath, dataUri(written[gpath]))
            /\ UNCHANGED spent
       ELSE /\ IF gpath \in files THEN Disturb(1) ELSE UNCHANGED spent
            /\ ret' = Ret("getImagePreview", "", FALSE, gpath,
                          IF gpath \in files THEN "EACCES" ELSE "ENOENT", "")
    /\ UNCHANGED <<envc, pbuf, cleanups, pview, written, hvars, view, qvars, fsvars,
                   cvars, dvars, nextId>>

\* readFile settles: the data URI of the bytes read, or, when it rejected
\* (the file is gone, or the OS refuses), the catch block's "".
ReadDone(readOk) ==
    /\ gpc = "reading"
    /\ gpc' = "idle"
    /\ gpath' = NoPath
    /\ IF readOk
       THEN /\ gpath \in files
            /\ ret' = PreviewRet(gpath, dataUri(written[gpath]))
            /\ UNCHANGED spent
       ELSE /\ IF gpath \in files THEN Disturb(1) ELSE UNCHANGED spent
            /\ ret' = PreviewRet(gpath, EmptyString)
    /\ UNCHANGED <<envc, pbuf, cleanups, pview, written, hvars, view, qvars, fsvars,
                   cvars, dvars, nextId>>

\* ----------------------------------------------------------- updateConfig
\* updateConfig(updates): loadConfig, the sync and the resets, the
\* sanitizing, saveConfig. A config.json that cannot be read gives the
\* defaults to start from; a write that fails is logged by saveConfig and
\* leaves the file as it was. newConfig is returned in either case.
UpdateConfig(updates, readOk, writeOk) ==
    /\ cfg.track => kcall = <<>>
    /\ Disturb((IF readOk THEN 0 ELSE 1) + (IF writeOk THEN 0 ELSE 1))
    /\ LET newConfig == updateConfig(configFile, updates, readOk)
       IN /\ configFile' = IF writeOk THEN newConfig ELSE configFile
          /\ kcall' = IF cfg.track
                      THEN <<[updates |-> updates,
                              file |-> configFile,
                              currentConfig |-> loadConfig(configFile, readOk),
                              readOk |-> readOk,
                              writeOk |-> writeOk,
                              newConfig |-> newConfig]>>
                      ELSE kcall
    /\ UNCHANGED <<cfg, phase, startFiles, ovars, late, vvars, platform, pbuf,
                   cleanups, pview, gvars, hvars, view, qvars, fsvars, cvars,
                   dvars, nextId, ret>>

\* ------------------------------------------------------- specifications
\* takeScreenshot, one call at a time, and setView.
NextCapture ==
    \/ \E v \in Views : SetView(v)
    \/ TakeScreenshot("c1")
    \/ CaptureFails("c1")
    \/ \E b \in Buffers : CaptureRejected("c1", b)
    \/ \E b \in Buffers, m \in BOOLEAN : CaptureReturns("c1", b, m)
    \/ WriteDone("c1")
    \/ WriteFails("c1")

\* deleteScreenshot and the two clears.
NextRemove ==
    \/ \E p \in AllPaths : DeleteScreenshot(p)
    \/ \E u \in BOOLEAN : DeleteDone(u)
    \/ ClearQueues
    \/ ClearExtraScreenshotQueue
    \/ \E u \in BOOLEAN : UnlinkCallback(u)

\* Every operation of the service, with few paths and several disturbances:
\* no queue fills up.
Init == StoreInit /\ cfg = Cfg(MaxFewPaths, MaxDisturbances, TRUE)
Next == NextCapture \/ NextRemove
Spec == Init /\ [][Next]_vars

\* Every operation of the service, with enough paths for a queue to fill up
\* and evict.
InitFill == StoreInit /\ cfg = Cfg(MaxPaths, MaxFillDisturbances, FALSE)
NextFill ==
    \/ NextCapture
    \/ \E u \in BOOLEAN : EvictDone("c1", u)
    \/ NextRemove
SpecFill == InitFill /\ [][NextFill]_vars

\* takeScreenshot and setView with enough paths for a queue to fill up and
\* evict, under OS-level failures.
InitEvict == StoreInit /\ cfg = Cfg(MaxPaths, MaxFaults, TRUE)
NextEvict ==
    \/ NextCapture
    \/ \E u \in BOOLEAN : EvictDone("c1", u)
SpecEvict == InitEvict /\ [][NextEvict]_vars

\* takeScreenshot and setView with enough paths for both queues to fill up
\* and one of them to evict.
InitBoth ==
    /\ StoreInit
    /\ dirs = AllDirs
    /\ cfg = Cfg(MaxBothPaths, MaxFillDisturbances, FALSE)
SpecBoth == InitBoth /\ [][NextEvict]_vars

\* takeScreenshot calls of two callers, interleaved at their await points,
\* and setView, on a disk where mkdir, writeFile and unlink succeed (their
\* failures are part of SpecEvict).
InitConcurrent ==
    /\ StoreInit
    /\ dirs = AllDirs
    /\ cfg = Cfg(MaxConcurrentPaths, 0, FALSE)
NextConcurrent ==
    \/ \E v \in Views : SetView(v)
    \/ \E c \in Procs :
          \/ TakeScreenshot(c)
          \/ CaptureFails(c)
          \/ \E b \in Buffers : CaptureRejected(c, b)
          \/ \E b \in Buffers, m \in BOOLEAN : CaptureReturns(c, b, m)
          \/ WriteDone(c)
          \/ \E u \in BOOLEAN : EvictDone(c, u)
SpecConcurrent == InitConcurrent /\ [][NextConcurrent]_vars

\* takeScreenshot and setView, the view at each call recorded.
InitInFlight ==
    /\ StoreInit
    /\ cfg = [Cfg(MaxFewPaths, MaxFaults, TRUE) EXCEPT !.views = TRUE]
SpecInFlight == InitInFlight /\ [][NextCapture]_vars

\* updateConfig calls one after another, from the default configuration,
\* config.json being read and written without failure.
InitConfig ==
    /\ FieldsInit
    /\ phase = "ready"
    /\ startFiles = {}
    /\ dirs = AllDirs
    /\ files = {}
    /\ tempFiles = {}
    /\ vbuf = EmptyBuf
    /\ platform = "linux"
    /\ cfg = Cfg(0, 0, FALSE)
NextConfig ==
    \E u \in Updates, readOk \in BOOLEAN, writeOk \in BOOLEAN :
       UpdateConfig(u, readOk, writeOk)
SpecConfig == InitConfig /\ [][NextConfig]_vars

\* One updateConfig call, recorded, on a configuration an earlier session
\* has stored.
InitReset ==
    /\ HelperFieldsInit
    /\ configFile \in StoredConfigs
    /\ phase = "ready"
    /\ startFiles = {}
    /\ dirs = AllDirs
    /\ files = {}
    /\ tempFiles = {}
    /\ vbuf = EmptyBuf
    /\ platform = "linux"
    /\ cfg = Cfg(0, MaxFaults, TRUE)
SpecReset == InitReset /\ [][NextConfig]_vars

\* Every operation of the service, the getters and a caller that changes the
\* arrays the getters gave it.
InitAlias == StoreInit /\ cfg = Cfg(MaxFewPaths, MaxFillDisturbances, FALSE)
NextGetters ==
    \/ GetScreenshotQueue
    \/ GetExtraScreenshotQueue
    \/ CallerPopsMain
    \/ CallerPopsExtra
NextAlias == Next \/ NextGetters
SpecAlias == InitAlias /\ [][NextAlias]_vars

\* One captureWindowsScreenshot() call, whatever its strategies do; the
\* temporary directory is missing when the constructor's mkdirSync failed.
InitWin ==
    /\ FieldsInit
    /\ phase = "ready"
    /\ startFiles = {}
    /\ dirs \in {ArtifactDirs, AllDirs}
    /\ files = {}
    /\ tempFiles \in SUBSET {f \in StartTemps : tempDir \in dirs}
    /\ vbuf = EmptyBuf
    /\ platform = "win32"
    /\ cfg = Cfg(MaxFewPaths, MaxFaults, TRUE)
NextWin ==
    \/ \E fails \in SUBSET StartTemps, r \in BOOLEAN :
          CaptureWindowsScreenshot(fails, r)
    \/ \E o \in Outcomes, u \in BOOLEAN : Method1Settles(o, u)
    \/ \E o \in Outcomes, u \in BOOLEAN : Method2Settles(o, u)
    \/ BackoffDone
SpecWin == InitWin /\ [][NextWin]_vars

\* cleanupTempFiles as captureWindowsScreenshot() runs it, on a temporary
\* directory that holds any files of CleanTemps.
InitClean ==
    /\ FieldsInit
    /\ phase = "ready"
    /\ startFiles = {}
    /\ dirs \in {ArtifactDirs, AllDirs}
    /\ files = {}
    /\ tempFiles \in SUBSET {f \in CleanTemps : tempDir \in dirs}
    /\ vbuf = EmptyBuf
    /\ platform = "win32"
    /\ cfg = Cfg(MaxFewPaths, MaxDisturbances, TRUE)
NextClean ==
    \E fails \in SUBSET CleanTemps, r \in BOOLEAN :
       CaptureWindowsScreenshot(fails, r)
SpecClean == InitClean /\ [][NextClean]_vars

\* takeScreenshot with captureScreenshot as each platform runs it.
InitPlatform ==
    /\ FieldsInit
    /\ phase = "ready"
    /\ startFiles = {}
    /\ dirs = AllDirs
    /\ files = {}
    /\ tempFiles = {}
    /\ vbuf = EmptyBuf
    /\ platform \in Platforms
    /\ cfg = Cfg(MaxPlatformPaths, MaxFaults, TRUE)
NextOrchestrator ==
    \/ \E o \in Outcomes, u \in BOOLEAN : Method1Settles(o, u)
    \/ \E o \in Outcomes, u \in BOOLEAN : Method2Settles(o, u)
    \/ BackoffDone
NextPlatform ==
    \/ TakeScreenshot("c1")
    \/ \E r \in BOOLEAN : WinStarts("c1", {}, r)
    \/ NextOrchestrator
    \/ \E m \in BOOLEAN : WinReturns("c1", m)
    \/ WinFails("c1")
    \/ DirectFails("c1")
    \/ \E b \in Buffers : DirectRejected("c1", b)
    \/ \E b \in Buffers, m \in BOOLEAN : DirectReturns("c1", b, m)
    \/ WriteDone("c1")
    \/ WriteFails("c1")
SpecPlatform == InitPlatform /\ [][NextPlatform]_vars

\* takeScreenshot on each platform, with paths for several captures and no
\* OS-level failure: a capture may fail when the queue holds the paths of
\* earlier ones.
InitFailed ==
    /\ FieldsInit
    /\ phase = "ready"
    /\ startFiles = {}
    /\ dirs = AllDirs
    /\ files = {}
    /\ tempFiles = {}
    /\ vbuf = EmptyBuf
    /\ platform \in Platforms
    /\ cfg = Cfg(MaxFewPaths, 0, TRUE)
NextFailed ==
    \/ TakeScreenshot("c1")
    \/ \E r \in BOOLEAN : WinStarts("c1", {}, r)
    \/ WinStartsAgain("c1")
    \/ NextOrchestrator
    \/ \E m \in BOOLEAN : WinReturns("c1", m)
    \/ WinFails("c1")
    \/ DirectFails("c1")
    \/ \E b \in Buffers : DirectRejected("c1", b)
    \/ \E b \in Buffers, m \in BOOLEAN : DirectReturns("c1", b, m)
    \/ WriteDone("c1")
SpecFailed == InitFailed /\ [][NextFailed]_vars

\* Captures on win32 one after another with time passing between them: the
\* temp files of one capture are there when the cleaner of the next runs.
\* The strategies time out, with their file written or not, or write a file
\* without the signature, a PNG below the minimum size or a good one.
InitTemp ==
    /\ FieldsInit
    /\ phase = "ready"
    /\ startFiles = {}
    /\ dirs = AllDirs
    /\ files = {}
    /\ tempFiles = {}
    /\ vbuf = EmptyBuf
    /\ platform = "win32"
    /\ cfg = Cfg(MaxTempPaths, MaxFaults, FALSE)
TempOutcomes ==
    {o \in Outcomes :
        \/ o.kind = "timeout"
        \/ /\ o.kind = "resolved"
           /\ o.wrote
           /\ o.buffer \in {CorruptBuf, SmallPng, GoodPng}}
NextTemp ==
    \/ TakeScreenshot("c1")
    \/ \E r \in BOOLEAN : WinStarts("c1", {}, r)
    \/ WinStartsAgain("c1")
    \/ \E o \in TempOutcomes, u \in BOOLEAN : Method1Settles(o, u)
    \/ \E o \in TempOutcomes, u \in BOOLEAN : Method2Settles(o, u)
    \/ BackoffDone
    \/ \E m \in BOOLEAN : WinReturns("c1", m)
    \/ WinFails("c1")
    \/ WriteDone("c1")
    \/ WriteFails("c1")
    \/ \E ms \in {StaleAfterMs, StaleAfterMs + 1} :
          pc["c1"] = "idle" /\ TimePasses(ms)
SpecTemp == InitTemp /\ [][NextTemp]_vars

\* takeScreenshot on win32 and the promises that settle after their timer
\* fired.
InitRace ==
    /\ FieldsInit
    /\ phase = "ready"
    /\ startFiles = {}
    /\ dirs = AllDirs
    /\ files = {}
    /\ tempFiles = {}
    /\ vbuf = EmptyBuf
    /\ platform = "win32"
    /\ cfg = Cfg(MaxPlatformPaths, MaxFaults, TRUE)
NextRace ==
    \/ TakeScreenshot("c1")
    \/ \E r \in BOOLEAN : WinStarts("c1", {}, r)
    \/ NextOrchestrator
    \/ \E m \in BOOLEAN : WinReturns("c1", m)
    \/ WinFails("c1")
    \/ WriteDone("c1")
    \/ WriteFails("c1")
    \/ \E i \in 1..(2 * maxRetries), w \in BOOLEAN : LateSettles(i, w)
SpecRace == InitRace /\ [][NextRace]_vars

\* The timer of withTimeout fires before the promise of the strategy in
\* flight has settled.
TimerFires ==
    \E w \in BOOLEAN :
       LET o == [kind |-> "timeout", wrote |-> w, buffer |-> EmptyBuf]
       IN Method1Settles(o, TRUE) \/ Method2Settles(o, TRUE)

\* SpecPlatform with what the event loop guarantees: a timer that is set
\* fires, a continuation that is ready runs, and writeFile settles. That the
\* promise of screenshot() or of PowerShell settles is not guaranteed.
FairPlatform ==
    /\ WF_vars(TimerFires)
    /\ WF_vars(BackoffDone)
    /\ WF_vars(\E r \in BOOLEAN : WinStarts("c1", {}, r))
    /\ WF_vars(\E m \in BOOLEAN : WinReturns("c1", m))
    /\ WF_vars(WinFails("c1"))
    /\ WF_vars(WriteDone("c1") \/ WriteFails("c1"))
SpecLive == InitPlatform /\ [][NextPlatform]_vars /\ FairPlatform

\* Every operation of the service and getImagePreview, the bytes of each
\* file recorded.
InitPreview ==
    /\ StoreInit
    /\ cfg = [Cfg(MaxPreviewPaths, MaxPreviewDisturbances, TRUE)
                 EXCEPT !.bytes = TRUE]
NextPreview ==
    \/ Next
    \/ \E p \in AllPaths : GetImagePreview(p)
    \/ \E r \in BOOLEAN : ReadDone(r)
SpecPreview == InitPreview /\ [][NextPreview]_vars

\* Every public method of the service: the operations on the queues, the
\* getters, a caller that changes the arrays it was given, getImagePreview.
InitMode ==
    /\ StoreInit
    /\ cfg = [Cfg(MaxPlatformPaths, MaxFaults, TRUE) EXCEPT !.bytes = TRUE]
NextMode == NextPreview \/ NextGetters
SpecMode == InitMode /\ [][NextMode]_vars

\* isValidPng on any buffer of TestBuffers.
InitValid ==
    /\ FieldsInit
    /\ phase = "ready"
    /\ startFiles = {}
    /\ dirs = AllDirs
    /\ files = {}
    /\ tempFiles = {}
    /\ vbuf \in TestBuffers
    /\ platform = "linux"
    /\ cfg = Cfg(MaxFewPaths, MaxFaults, TRUE)
NextValid == IsValidPngCall
SpecValid == InitValid /\ [][NextValid]_vars

\* The constructor on a disk that holds any files of StartPaths.
InitPurge ==
    /\ FieldsInit
    /\ phase = "new"
    /\ dirs \in SUBSET AllDirs
    /\ files \in SUBSET {f \in StartPaths : f.dir \in dirs}
    /\ startFiles = files
    /\ tempFiles = {}
    /\ vbuf = EmptyBuf
    /\ platform = "linux"
    /\ cfg = Cfg(MaxFewPaths, MaxFaults, TRUE)
NextPurge ==
    \E v \in Views, mk \in SUBSET AllDirs, rd \in SUBSET ArtifactDirs,
       ul \in SUBSET StartPaths : Construct(v, mk, rd, ul)
SpecPurge == InitPurge /\ [][NextPurge]_vars

\* ----------------------------------------------------------------- claims
Idle == dpc = "idle" /\ \A c \in Procs : pc[c] = "idle"
InQueues == Range(screenshotQueue) \cup Range(extraScreenshotQueue)
QueueOf(dir) ==
    IF dir = screenshotDir THEN screenshotQueue ELSE extraScreenshotQueue
OtherDir(dir) ==
    IF dir = screenshotDir THEN extraScreenshotDir ELSE screenshotDir

\* C1: whatever captures, removes, clears and view changes have run, the
\* primary queue and the secondary queue each hold at most 5 paths.
C1_BoundedQueues ==
    /\ Len(screenshotQueue) <= 5
    /\ Len(extraScreenshotQueue) <= 5

\* C1 witness: six captures went to the primary queue, the first was evicted
\* and five remain, every call having returned.
C1_Witness ==
    /\ Idle
    /\ Len(screenshotQueue) = 5
    /\ nextId = 7
    /\ MkPath(screenshotDir, 1) \notin Range(screenshotQueue)

\* C2: a write that succeeds on a queue of 5 paths removes exactly the front
\* path of that queue, leaves 5 paths with the new one last and the other
\* queue as it was; the evicted file is gone once its unlink succeeded.
C2_EvictionOnWrite ==
    [][\A c \in Procs :
         /\ (WriteDone(c) /\ Len(QueueOf(ppath[c].dir)) = 5) =>
              /\ QueueOf(ppath[c].dir)' =
                   Tail(QueueOf(ppath[c].dir)) \o <<ppath[c]>>
              /\ Len(QueueOf(ppath[c].dir)') = 5
              /\ premoved'[c] = Head(QueueOf(ppath[c].dir))
              /\ QueueOf(OtherDir(ppath[c].dir))' =
                   QueueOf(OtherDir(ppath[c].dir))
         /\ EvictDone(c, TRUE) => premoved[c] \notin files'
      ]_vars

\* C2 witness: the sixth capture to the primary queue has returned its path,
\* the first path was evicted and its file is gone.
C2_Witness ==
    /\ ret.op = "takeScreenshot" /\ ret.ok
    /\ ret.path = MkPath(screenshotDir, 6)
    /\ screenshotQueue = [i \in 1..5 |-> MkPath(screenshotDir, i + 1)]
    /\ MkPath(screenshotDir, 1) \notin files

C4_RemovedFromBothQueues ==
    (ret.op = "deleteScreenshot" /\ ret.ok) => ret.path \notin InQueues

\* C5: between operations every path in a queue has its file on disk.
C5_QueuedFilesExist ==
    Idle => InQueues \subseteq files

\* A step in which deleteScreenshot returns.
DeleteReturns == ret'.op = "deleteScreenshot"

\* The paths of q other than p, in their order.
Others(q, p) == SelectSeq(q, LAMBDA x : x # p)

\* deleteScreenshot leaves every path other than its argument where it is.
DeleteFrame ==
    /\ Others(screenshotQueue', ret'.path) =
         Others(screenshotQueue, ret'.path)
    /\ Others(extraScreenshotQueue', ret'.path) =
         Others(extraScreenshotQueue, ret'.path)

\* C6 as stated: of two deleteScreenshot(path) calls in a row both return
\* success, and neither changes the place of any other path in a queue.
C6_BothSucceed ==
    [][DeleteReturns =>
         /\ ret'.ok
         /\ ret'.prev # "" => ret'.prev = "success"
         /\ DeleteFrame
      ]_vars

\* C6 amended: a deleteScreenshot(path) returns success unless its own unlink
\* fails, and then it returns the failure; the second of two calls in a row
\* succeeds when the first did; neither changes the place of any other path
\* in a queue.
C6_IdempotentRemove ==
    [][DeleteReturns =>
         /\ ret'.ok \/ ret'.error \in {"EPERM", "ENOENT"}
         /\ ret'.prev = "success" => ret'.ok
         /\ DeleteFrame
      ]_vars

\* C6 witness: the second of two deleteScreenshot calls in a row on one path
\* has returned success after the first did, with other paths still queued.
C6_Witness ==
    /\ ret.op = "deleteScreenshot" /\ ret.ok /\ ret.prev = "success"
    /\ InQueues \ {ret.path} # {}

\* The name ends in ".png".
IsPngName(name) ==
    /\ Len(name) >= 4
    /\ name[Len(name) - 3] = "."
    /\ name[Len(name) - 2] = "p"
    /\ name[Len(name) - 1] = "n"
    /\ name[Len(name)] = "g"

Constructed == phase = "new" /\ phase' = "ready"

C8_ReturnsSnapshots ==
    [][/\ (CallerPopsMain \/ CallerPopsExtra) => qvars' = qvars
       /\ Next =>
             /\ heldMain.held =>
                   HeldVal(heldMain', screenshotQueue')
                      = HeldVal(heldMain, screenshotQueue)
             /\ heldExtra.held =>
                   HeldVal(heldExtra', extraScreenshotQueue')
                      = HeldVal(heldExtra, extraScreenshotQueue)]_vars

\* The strategy invocations made, as <<strategy, attempt>> pairs, and the
\* tags of the errors array.
CallTags == [i \in 1..Len(calls) |-> <<calls[i].method, calls[i].attempt>>]
ErrorTags == [i \in 1..Len(errors) |-> <<errors[i].method, errors[i].attempt>>]
Ended(method, outcome) ==
    \A i \in 1..Len(calls) :
       calls[i].method = method => calls[i].outcome = outcome

\* C9 (orchestrator fallback): when a capture is over in which every
\* invocation of strategy 1 failed and every invocation of strategy 2
\* succeeded, it returned the buffer of strategy 2 in round 1, the errors
\* array holds one entry, tagged strategy 1 and attempt 1, and there was no
\* backoff sleep and no second round.
C9_OrchestratorFallback ==
    (opc = "done" /\ Ended(1, "failed") /\ Ended(2, "succeeded")) =>
       /\ oresult.ok
       /\ oresult.method = 2
       /\ CallTags = <<<<1, 1>>, <<2, 1>>>>
       /\ oresult.buffer = calls[2].buffer
       /\ attempt = 1
       /\ ErrorTags = <<<<1, 1>>>>
       /\ sleeps = <<>>

\* Strategy 1 failed, strategy 2 succeeded in round 1 and its buffer was
\* returned.
C9_Witness ==
    /\ opc = "done"
    /\ Len(calls) = 2
    /\ calls[1].outcome = "failed"
    /\ calls[2].outcome = "succeeded"
    /\ oresult.ok
    /\ oresult.buffer = EdgePng
    /\ Len(errors) = 1

AllPairs == <<<<1, 1>>, <<2, 1>>, <<1, 2>>, <<2, 2>>, <<1, 3>>, <<2, 3>>>>

\* C10 (orchestrator exhaustion): when a capture is over in which every
\* invocation of every strategy failed, it threw after three rounds in which
\* each strategy was invoked once, and the errors it carries hold one entry
\* per strategy and attempt, in that order, each tagged with both.
C10_OrchestratorExhaustion ==
    (opc = "done" /\ Ended(1, "failed") /\ Ended(2, "failed")) =>
       /\ ~oresult.ok
       /\ CallTags = AllPairs
       /\ ErrorTags = AllPairs
       /\ oresult.errors = errors
       /\ Len(sleeps) = maxRetries - 1

\* Six invocations failed and the capture threw with six entries.
C10_Witness ==
    /\ opc = "done"
    /\ ~oresult.ok
    /\ Len(calls) = 6
    /\ Len(oresult.errors) = 6
    /\ \A i \in 1..6 : calls[i].outcome = "failed"

\* Some strategy invocation has ended with a validated buffer.
Succeeded(cs) == \E i \in 1..Len(cs) : cs[i].outcome = "succeeded"

\* C11 (first success wins): in the step in which a strategy invocation ends
\* with a validated buffer the capture returns that buffer, that invocation
\* is the last one made, there have been only the backoff sleeps between the
\* rounds so far, and the temp file of the strategy is gone unless its unlink
\* failed; after that step no strategy is invoked, no round starts and no
\* sleep happens.
C11_FirstSuccessWins ==
    [][/\ (~Succeeded(calls) /\ Succeeded(calls')) =>
             /\ opc' = "done"
             /\ oresult'.ok
             /\ calls'[Len(calls')].outcome = "succeeded"
             /\ oresult'.buffer = calls'[Len(calls')].buffer
             /\ oresult'.method = calls'[Len(calls')].method
             /\ isValidPng(oresult'.buffer)
             /\ oresult'.buffer.len >= 1024
             /\ Len(calls') = Len(calls)
             /\ attempt' = attempt
             /\ sleeps' = sleeps
             /\ Len(sleeps') = attempt' - 1
             /\ \/ [name |-> tempFile, age |-> 0] \notin tempFiles'
                \/ spent' = spent + 1
       /\ Succeeded(calls) => UNCHANGED ovars]_vars

\* Strategy 1 failed in rounds 1 and 2 and succeeded in round 3 after two
\* sleeps; its temp file is gone.
C11_Witness ==
    /\ opc = "done"
    /\ oresult.ok
    /\ oresult.method = 1
    /\ attempt = 3
    /\ Len(calls) = 5
    /\ Len(sleeps) = 2
    /\ spent = 0
    /\ [name |-> tempFile, age |-> 0] \notin tempFiles

\* The buffer starts with the eight bytes of the PNG signature.
HasSignature(b) ==
    /\ Len(b.head) = 8
    /\ \A i \in 1..8 : b.head[i] = <<137, 80, 78, 71, 13, 10, 26, 10>>[i]

\* C12 (validator) as stated: isValidPng returns true for a buffer with the
\* signature and at least 1024 bytes, and false for a buffer of fewer than 8
\* bytes, for one whose first byte is not the signature's, and for one with
\* the signature and fewer than 1024 bytes.
C12_ValidatorCorrect ==
    vresult # <<>> =>
       /\ (HasSignature(vbuf) /\ vbuf.len >= 1024) => vresult[1] = TRUE
       /\ vbuf.len < 8 => vresult[1] = FALSE
       /\ (vbuf.len >= 1 /\ vbuf.head[1] # 137) => vresult[1] = FALSE
       /\ (HasSignature(vbuf) /\ vbuf.len < 1024) => vresult[1] = FALSE

\* C13 as stated: the buffer of every artifact that takeScreenshot wrote,
\* queued and returned the path of has the signature and at least 1024
\* bytes.
C13_NoInvalidArtifact ==
    (ret.op = "takeScreenshot" /\ ret.ok) =>
       /\ HasSignature(pbuf[ret.proc])
       /\ pbuf[ret.proc].len >= 1024

\* C14 as stated: when captureWindowsScreenshot threw, the error that
\* takeScreenshot rejects with is the error captureWindowsScreenshot threw.
C14_FailureUnchanged ==
    (ret.op = "takeScreenshot" /\ ~ret.ok /\ opc = "done" /\ ~oresult.ok) =>
       /\ ret.error.parts = <<"Could not capture screenshot after ",
                              "3", " attempts. Errors: ">>
       /\ ret.error.errors = oresult.errors

\* The writeFile of the takeScreenshot in flight rejects in this step.
WriteFailed ==
    /\ pc["c1"] = "writing"
    /\ pc'["c1"] = "idle"
    /\ ppath["c1"] \notin files'

\* C15 (write failure): when writeFile rejects, takeScreenshot rejects with
\* that error and both queues stay as they were; a path enters a queue only
\* in a step after which its file is on disk.
C15_WriteFailureFatal ==
    [][/\ WriteFailed =>
             /\ ret'.op = "takeScreenshot"
             /\ ~ret'.ok
             /\ ret'.error = "write failed"
             /\ qvars' = qvars
       /\ \A p \in InQueues' \ InQueues : p \in files']_vars

\* A write failed on top of a full primary queue, which is unchanged.
C15_Witness ==
    /\ ret.op = "takeScreenshot"
    /\ ~ret.ok
    /\ ret.error = "write failed"
    /\ Len(screenshotQueue) = 5
    /\ Range(screenshotQueue) = files

\* The unlink of the evicted file fails in this step.
EvictFailed ==
    /\ pc["c1"] = "evicting"
    /\ pc'["c1"] = "idle"
    /\ premoved["c1"] \in files'

\* C16 (eviction delete failure): when the unlink of the evicted file
\* fails, takeScreenshot returns the new path all the same, the new path is
\* queued, the evicted path is in no queue and no queue is longer than 5.
C16_EvictFailureNonFatal ==
    [][EvictFailed =>
          /\ ret'.op = "takeScreenshot"
          /\ ret'.ok
          /\ ret'.path = ppath["c1"]
          /\ ret'.path \in InQueues'
          /\ premoved["c1"] \notin InQueues'
          /\ Len(screenshotQueue') <= 5
          /\ Len(extraScreenshotQueue') <= 5
          /\ qvars' = qvars]_vars

\* takeScreenshot has returned the sixth path while the file of the first
\* is still on disk.
C16_Witness ==
    /\ ret.op = "takeScreenshot"
    /\ ret.ok
    /\ spent = 1
    /\ Cardinality(files) = 6
    /\ \E f \in files : f \notin InQueues
    /\ ret.path \in InQueues

\* C17 as stated: deleteScreenshot returns a failure only when the OS
\* refused to delete a file that exists; it returns success whenever the
\* file is absent when the unlink runs.
C17_ErrorOnlyOnOsFailure ==
    (ret.op = "deleteScreenshot" /\ ~ret.ok) =>
       /\ ret.error = "EPERM"
       /\ ret.path \in files

\* C18 (clear): when clearQueues returns both queues are empty, when
\* clearExtraScreenshotQueue returns the extra queue is empty and the
\* primary queue as it was; either returns without an error and before any
\* of its unlinks has run, so with every file still on disk; and an unlink
\* that runs later changes no queue, whatever its outcome.
C18_ClearAlwaysEmpties ==
    [][/\ ret'.op = "clearQueues" =>
             /\ ret'.ok
             /\ screenshotQueue' = <<>>
             /\ extraScreenshotQueue' = <<>>
             /\ files' = files
             /\ Len(pendingUnlinks') >= Len(pendingUnlinks)
       /\ ret'.op = "clearExtraScreenshotQueue" =>
             /\ ret'.ok
             /\ extraScreenshotQueue' = <<>>
             /\ screenshotQueue' = screenshotQueue
             /\ files' = files
             /\ Len(pendingUnlinks') >= Len(pendingUnlinks)
       /\ Len(pendingUnlinks') < Len(pendingUnlinks) => qvars' = qvars]_vars

\* clearQueues has returned with both queues empty while the files of both
\* queues are still on disk and their unlinks pending.
C18_Witness ==
    /\ ret.op = "clearQueues"
    /\ ret.ok
    /\ Len(screenshotQueue) = 0
    /\ Len(extraScreenshotQueue) = 0
    /\ Len(pendingUnlinks) = 3
    /\ Cardinality(files) = 3
    /\ \E f \in files : f.dir = extraScreenshotDir

\* C19 as stated: every takeScreenshot call that awaits captureScreenshot
\* eventually returns or rejects.
C19_CaptureCompletes == (pc["c1"] = "capturing") ~> (pc["c1"] = "idle")

\* The step pushes the message of a fired timer for the strategy in flight.
TimerWins ==
    /\ Len(errors') = Len(errors) + 1
    /\ errors'[Len(errors')].msg \in TimeoutMessages

\* C20 (timeout race): a timer that fires first ends the invocation as a
\* failure: its tagged entry is pushed, the invocation is marked failed and
\* the loop falls back to strategy 2, to the backoff sleep or, in the last
\* round, to the failure of the capture, with no result returned. An
\* invocation that ended by its timer keeps its record, and a promise that
\* settles after its timer changes neither the state of the loop, nor what
\* the capture returned, nor the errors, nor the queues and their files.
C20_TimeoutRace ==
    [][/\ (opc = "method1" /\ TimerWins) =>
             /\ errors' = Append(errors,
                   [method |-> 1, attempt |-> attempt,
                    msg |-> "screenshot-desktop timed out after 5 seconds"])
             /\ calls'[Len(calls)].outcome = "failed"
             /\ opc' = "method2"
             /\ Len(calls') = Len(calls) + 1
             /\ calls'[Len(calls')].method = 2
             /\ calls'[Len(calls')].attempt = attempt
             /\ oresult' = oresult
             /\ qvars' = qvars
       /\ (opc = "method2" /\ TimerWins) =>
             /\ errors' = Append(errors,
                   [method |-> 2, attempt |-> attempt,
                    msg |-> "PowerShell screenshot timed out after 10 seconds"])
             /\ calls'[Len(calls)].outcome = "failed"
             /\ IF attempt < maxRetries
                THEN opc' = "backoff" /\ oresult' = oresult
                ELSE opc' = "done" /\ ~oresult'.ok
             /\ qvars' = qvars
       /\ Len(errors') >= Len(errors) =>
             \A i \in TimedOut :
                /\ i \in 1..Len(errors') /\ errors'[i] = errors[i]
                /\ calls'[i] = calls[i]
       /\ late' # late =>
             /\ late' \ late \subseteq TimedOut
             /\ UNCHANGED <<opc, attempt, errors, calls, sleeps, oresult,
                            tempFile, qvars, files, pendingUnlinks, pc, ppath,
                            pbuf, view, ret>>]_vars

\* Strategy 1 timed out in round 1, strategy 2 succeeded and its file joined
\* the queue; then the promise of strategy 1 settled, leaving its temp file
\* behind.
C20_Witness ==
    /\ 1 \in late
    /\ errors[1].msg = "screenshot-desktop timed out after 5 seconds"
    /\ [name |-> calls[1].file, age |-> 0] \in tempFiles
    /\ opc = "done"
    /\ oresult.ok
    /\ oresult.method = 2
    /\ pc["c1"] = "idle"
    /\ Len(screenshotQueue) = 1

\* C21 (backoff schedule): a sleep is recorded only when strategy 2 has
\* failed in a round k < 3 whose two invocations both failed; it is the k-th
\* sleep and lasts 200 * 2^(k-1) ms. The loop waits only with such a sleep
\* recorded, no sleep follows a success, and a capture that threw has slept
\* 200 ms and then 400 ms and no more.
C21_BackoffSchedule ==
    [][/\ sleeps' # sleeps =>
             /\ opc = "method2"
             /\ opc' = "backoff"
             /\ attempt' = attempt
             /\ attempt < 3
             /\ sleeps' = Append(sleeps, 200 * 2 ^ (attempt - 1))
             /\ Len(sleeps') = attempt
             /\ Len(calls') = 2 * attempt
             /\ \A i \in 1..Len(calls') : calls'[i].outcome = "failed"
       /\ (opc' = "backoff" /\ opc # "backoff") => sleeps' # sleeps
       /\ Succeeded(calls) => sleeps' = sleeps
       /\ (opc' = "done" /\ oresult'.ok) => Len(sleeps') = attempt' - 1
       /\ (opc' = "done" /\ ~oresult'.ok) => sleeps' = <<200, 400>>]_vars

\* The capture threw after its third round, having slept 200 ms and 400 ms.
C21_Witness ==
    /\ opc = "done"
    /\ ~oresult.ok
    /\ attempt = 4
    /\ sleeps = <<200, 400>>

\* C22 as stated: cleanupTempFiles runs only before the first strategy of
\* the first round, and when captureScreenshot() has returned or thrown it
\* has run exactly once since takeScreenshot was called.
C22_CleanerOncePerCapture ==
    [][/\ cleanups' > cleanups =>
             /\ cleanups' = 1
             /\ pc["c1"] = "capturing"
             /\ calls = <<>>
             /\ Len(calls') = 1
             /\ calls'[1].method = 1
             /\ calls'[1].attempt = 1
       /\ (pc["c1"] = "capturing" /\ pc'["c1"] # "capturing") =>
             cleanups' = 1]_vars

\* The three bytes that four base64 digits stand for.
fromSextets(d) ==
    <<d[1] * 4 + d[2] \div 16, (d[2] % 16) * 16 + d[3] \div 4,
      (d[3] % 4) * 64 + d[4]>>

\* The string is the PNG data URI of the bytes of buffer: the prefix, as
\* many digits as the length of the buffer takes, and leading digits that
\* stand for its first six bytes.
IsDataUriOf(data, buffer) ==
    /\ data.prefix = "data:image/png;base64,"
    /\ data.len = 4 * ((buffer.len + 2) \div 3)
    /\ Len(data.head) = 8
    /\ fromSextets(SubSeq(data.head, 1, 4)) \o fromSextets(SubSeq(data.head, 5, 8))
         = SubSeq(buffer.head, 1, 6)

C23_SetViewPure ==
    [][/\ view' # view =>
             UNCHANGED <<qvars, fsvars, hvars, cvars, dvars, gvars, pbuf,
                         nextId, spent>>
       /\ ret'.op # "" => view' = view]_vars

\* The view was changed after a capture went to the main queue: the path is
\* still queued and its file on disk.
C23_Witness ==
    /\ view = "solutions"
    /\ Len(screenshotQueue) = 1
    /\ screenshotQueue[1] \in files
    /\ Idle

\* The entries older than 5 minutes.
Stale(tfs) == {f \in tfs : f.age > 300000}

\* The step in which captureWindowsScreenshot runs the cleaner.
CleanerRuns == opc = "idle" /\ opc' # "idle"

FilesIn(fs, dir) == {f \in fs : f.dir = dir}

\* What a capture that appends path p makes of a queue q, whatever the other
\* queue holds.
AppendedTo(q, p) ==
    IF Len(q) < 5 THEN Append(q, p) ELSE SubSeq(q, 2, Len(q)) \o <<p>>

\* C26 (per-queue isolation): a step of a capture that changes the main
\* queue appends its path and drops the oldest path if and only if the main
\* queue held 5 paths, whatever the extra queue holds, and leaves the extra
\* queue and the files of the extra directory as they are; likewise with
\* the queues exchanged. A step that creates or deletes a file does so in
\* the directory of the capture's path only.
C26_QueueIsolation ==
    [][/\ screenshotQueue' # screenshotQueue =>
             /\ ppath["c1"].dir = screenshotDir
             /\ screenshotQueue' = AppendedTo(screenshotQueue, ppath["c1"])
             /\ extraScreenshotQueue' = extraScreenshotQueue
       /\ extraScreenshotQueue' # extraScreenshotQueue =>
             /\ ppath["c1"].dir = extraScreenshotDir
             /\ extraScreenshotQueue' =
                   AppendedTo(extraScreenshotQueue, ppath["c1"])
             /\ screenshotQueue' = screenshotQueue
       /\ files' # files =>
             FilesIn(files', OtherDir(ppath["c1"].dir))
                = FilesIn(files, OtherDir(ppath["c1"].dir))]_vars

\* Both queues hold 5 paths, all ten files are on disk, and an eleventh
\* capture has evicted the oldest path of the main queue.
C26_Witness ==
    /\ Len(screenshotQueue) = 5
    /\ Len(extraScreenshotQueue) = 5
    /\ Range(screenshotQueue) \cup Range(extraScreenshotQueue) = files
    /\ nextId = 12
    /\ Idle

\* The rank of the path among the paths handed out: captures that run one
\* after the other are appended in this order.
UuidIndex(p) == CHOOSE n \in 1..Len(Uuids) : Uuids[n] = p.name[1]

\* The queue lists its paths in the order of their captures.
InCaptureOrder(q) ==
    \A i \in 1..(Len(q) - 1) : UuidIndex(q[i]) < UuidIndex(q[i + 1])

\* The queue with its i-th element taken out.
Without(q, i) == SubSeq(q, 1, i - 1) \o SubSeq(q, i + 1, Len(q))

\* What a step may make of a queue: nothing, the capture's path appended,
\* the same with the front element dropped, one element taken out, or the
\* empty queue of a clear.
FifoStep(q, qn, p) ==
    \/ qn = q
    \/ qn = Append(q, p)
    \/ Len(q) > 0 /\ qn = Tail(q) \o <<p>>
    \/ \E i \in 1..Len(q) : qn = Without(q, i)
    \/ qn = <<>>

\* C27 (FIFO order): each queue lists its paths in the order of their
\* captures, after every step; a step appends the capture's path at the
\* end, drops the front element with it, takes out one element or empties
\* the queue, so the paths that stay keep their order. When deleteScreenshot
\* has unlinked its path, no other path leaves a queue.
C27_FifoOrder ==
    [][/\ InCaptureOrder(screenshotQueue')
       /\ InCaptureOrder(extraScreenshotQueue')
       /\ FifoStep(screenshotQueue, screenshotQueue', ppath["c1"])
       /\ FifoStep(extraScreenshotQueue, extraScreenshotQueue',
                   ppath["c1"])
       /\ (dpc = "unlinking" /\ dpc' = "idle") =>
             (InQueues \ InQueues') \subseteq {dpath}]_vars

\* The sixth capture has evicted the first path and the fourth path was
\* removed: the main queue lists the second, third, fifth and sixth.
C27_Witness ==
    /\ Len(screenshotQueue) = 4
    /\ [i \in 1..4 |-> UuidIndex(screenshotQueue[i])] = <<2, 3, 5, 6>>
    /\ Idle

\* The invocations that failed, in the order they were made.
FailedCalls == SelectSeq(calls, LAMBDA c : c.outcome = "failed")

\* C28 (strategy order): the first invocation is strategy 1 of round 1.
\* Strategy 2 is invoked only right after strategy 1 failed in the same
\* round, and always then; strategy 1 is invoked again only right after
\* strategy 2 failed, in the next round; nothing is invoked after a
\* success. The errors array lists the failed invocations in the order they
\* were made, each tagged with its strategy and round.
C28_StrategyOrder ==
    /\ Len(calls) > 0 => calls[1].method = 1 /\ calls[1].attempt = 1
    /\ \A i \in 2..Len(calls) :
          /\ calls[i - 1].outcome = "failed"
          /\ IF calls[i].method = 2
             THEN /\ calls[i - 1].method = 1
                  /\ calls[i - 1].attempt = calls[i].attempt
             ELSE /\ calls[i - 1].method = 2
                  /\ calls[i - 1].attempt + 1 = calls[i].attempt
    /\ \A i \in 1..Len(calls) :
          (calls[i].method = 1 /\ calls[i].outcome = "failed") =>
             /\ i < Len(calls)
             /\ calls[i + 1].method = 2
    /\ Len(errors) = Len(FailedCalls)
    /\ \A i \in 1..Len(errors) :
          /\ errors[i].method = FailedCalls[i].method
          /\ errors[i].attempt = FailedCalls[i].attempt

\* Round 2 is under way: strategy 1 and strategy 2 failed in round 1,
\* strategy 1 failed in round 2 and strategy 2 is in flight.
C28_Witness ==
    /\ opc = "method2"
    /\ attempt = 2
    /\ Len(calls) = 4
    /\ calls[4].outcome = "pending"
    /\ ErrorTags = <<<<1, 1>>, <<2, 1>>, <<1, 2>>>>

\* The change of queue q into qn is the append-and-evict step of the
\* capture of caller c: its path is appended, and the oldest path dropped
\* and handed to its unlink exactly when the queue held 5 paths.
AppendAndEvict(c, q, qn) ==
    /\ pc[c] = "writing"
    /\ ppath[c] \notin Range(q)
    /\ IF Len(q) < 5
       THEN qn = Append(q, ppath[c]) /\ pc'[c] = "idle"
       ELSE /\ qn = Tail(q) \o <<ppath[c]>>
            /\ pc'[c] = "evicting"
            /\ premoved'[c] = Head(q)
    /\ \A d \in Procs \ {c} : pc'[d] = pc[d] /\ premoved'[d] = premoved[d]

\* C29 (concurrent captures): with the takeScreenshot calls of two callers
\* interleaved at their await points, no queue ever holds more than 5 paths
\* or holds a path twice; every change of a queue is the append-and-evict
\* step of one capture, so a path leaves a queue only as the oldest path of
\* a full queue, and every capture whose write is done has run that step; a path handed to an unlink is in no queue any more, and
\* two evictions in flight never hold the same path.
C29_ConcurrentCaptures ==
    [][/\ Len(screenshotQueue') <= 5
       /\ Len(extraScreenshotQueue') <= 5
       /\ Cardinality(InQueues') =
             Len(screenshotQueue') + Len(extraScreenshotQueue')
       /\ screenshotQueue' # screenshotQueue =>
             \E c \in Procs :
                AppendAndEvict(c, screenshotQueue, screenshotQueue')
       /\ extraScreenshotQueue' # extraScreenshotQueue =>
             \E c \in Procs :
                AppendAndEvict(c, extraScreenshotQueue, extraScreenshotQueue')
       /\ \A c \in Procs :
             (pc[c] = "writing" /\ pc'[c] # "writing") =>
                IF ppath[c].dir = screenshotDir
                THEN AppendAndEvict(c, screenshotQueue, screenshotQueue')
                ELSE AppendAndEvict(c, extraScreenshotQueue,
                                    extraScreenshotQueue')
       /\ \A c \in Procs :
             pc'[c] = "evicting" => premoved'[c] \notin InQueues'
       /\ (pc'["c1"] = "evicting" /\ pc'["c2"] = "evicting") =>
             premoved'["c1"] # premoved'["c2"]]_vars

\* Two captures overlapped on the full main queue: each has appended its
\* path and evicted one of the two oldest paths, and both unlinks are
\* pending.
C29_Witness ==
    /\ pc["c1"] = "evicting"
    /\ pc["c2"] = "evicting"
    /\ premoved["c1"].dir = screenshotDir
    /\ premoved["c2"].dir = screenshotDir
    /\ Len(screenshotQueue) = 5
    /\ ppath["c1"] \in Range(screenshotQueue)
    /\ ppath["c2"] \in Range(screenshotQueue)

\* C30 (mode read after the capture): when captureScreenshot() has returned
\* its buffer, the path is made in the directory of the view as it is then,
\* whatever the view was when takeScreenshot was called and whatever it
\* becomes during the write; the path is then appended to the queue of that
\* directory and to no other.
C30_ViewReadAfterCapture ==
    [][/\ (pc["c1"] = "capturing" /\ pc'["c1"] = "writing") =>
             ppath'["c1"].dir = IF view = "queue" THEN screenshotDir
                                ELSE extraScreenshotDir
       /\ (pc["c1"] = "writing" /\ pc'["c1"] = "writing") =>
             ppath'["c1"] = ppath["c1"]
       /\ (pc["c1"] = "writing" /\ pc'["c1"] = "idle" /\ ret'.ok) =>
             /\ ret'.path = ppath["c1"]
             /\ IF ppath["c1"].dir = screenshotDir
                THEN /\ screenshotQueue' = Append(screenshotQueue, ppath["c1"])
                     /\ extraScreenshotQueue' = extraScreenshotQueue
                ELSE /\ extraScreenshotQueue' =
                           Append(extraScreenshotQueue, ppath["c1"])
                     /\ screenshotQueue' = screenshotQueue]_vars

\* takeScreenshot was called in the view "queue", the view was set to
\* "solutions" while the capture was in flight, and the path it returned is
\* in the extra queue.
C30_Witness ==
    /\ pview["c1"] = "queue"
    /\ ret.op = "takeScreenshot"
    /\ ret.ok
    /\ ret.path.dir = extraScreenshotDir
    /\ extraScreenshotQueue = <<ret.path>>
    /\ screenshotQueue = <<>>
    /\ view = "solutions"

\* The queues, the artifact directories, their files and the unlinks issued.
ArtifactStore == <<screenshotQueue, extraScreenshotQueue, dirs, files,
                   pendingUnlinks>>

\* C31 (a failed capture changes nothing): from the call of takeScreenshot
\* to its rejection, be it because captureScreenshot failed on every
\* strategy, returned an empty buffer or returned one without the PNG
\* signature, no step changes the queues, the artifact directories or their
\* files: at the rejection they are as they were at the call, and no path is
\* returned.
C31_FailedCaptureChangesNothing ==
    [][/\ (pc["c1"] = "idle" /\ pc'["c1"] = "capturing") =>
             ArtifactStore' = ArtifactStore
       /\ (pc["c1"] = "capturing" /\ pc'["c1"] = "capturing") =>
             ArtifactStore' = ArtifactStore
       /\ (pc["c1"] = "capturing" /\ pc'["c1"] = "idle") =>
             /\ ret'.op = "takeScreenshot"
             /\ ~ret'.ok
             /\ ret'.path = NoPath
             /\ ArtifactStore' = ArtifactStore]_vars

\* On win32 a capture has failed on both strategies in all three rounds
\* while the main queue held the path of an earlier capture, whose file is
\* still there.
C31_Witness ==
    /\ platform = "win32"
    /\ ret.op = "takeScreenshot"
    /\ ~ret.ok
    /\ opc = "done"
    /\ ~oresult.ok
    /\ Len(errors) = 2 * maxRetries
    /\ Len(screenshotQueue) = 1
    /\ files = Range(screenshotQueue)

\* The elements of q differ from one another.
NoDuplicates(q) == \A i, j \in 1..Len(q) : q[i] = q[j] => i = j

DeleteActs == dpc' # dpc \/ DeleteReturns

\* C33 (deleteScreenshot touches the view's queue only): a step of
\* deleteScreenshot taken in the view "queue" leaves extraScreenshotQueue as
\* it is, and one taken in another view leaves screenshotQueue as it is,
\* also when the path is in the queue left alone; the queue the view selects
\* loses the path when the call returns success and is unchanged otherwise.
C33_DeleteTouchesOneQueue ==
    [][DeleteActs =>
         /\ view' = view
         /\ IF view = "queue"
            THEN /\ extraScreenshotQueue' = extraScreenshotQueue
                 /\ screenshotQueue' =
                       IF DeleteReturns /\ ret'.ok
                       THEN Others(screenshotQueue, ret'.path)
                       ELSE screenshotQueue
            ELSE /\ screenshotQueue' = screenshotQueue
                 /\ extraScreenshotQueue' =
                       IF DeleteReturns /\ ret'.ok
                       THEN Others(extraScreenshotQueue, ret'.path)
                       ELSE extraScreenshotQueue]_vars

\* deleteScreenshot has returned success in a view other than "queue" for a
\* path of the main queue: the file is gone and the main queue still holds
\* the path.
C33_Witness ==
    /\ ret.op = "deleteScreenshot"
    /\ ret.ok
    /\ view # "queue"
    /\ ret.path \in Range(screenshotQueue)
    /\ ret.path \notin files
    /\ extraScreenshotQueue # <<>>

\* The names of temp files.
Names(tfs) == {f.name : f \in tfs}

\* Steps of captureWindowsScreenshot: cleanupTempFiles runs; the strategy in
\* flight fails; it succeeds.
CleanerPass == cleanups' = cleanups + 1
StrategyFails ==
    /\ opc \in {"method1", "method2"}
    /\ Len(errors') = Len(errors) + 1
StrategySucceeds ==
    /\ opc \in {"method1", "method2"}
    /\ opc' = "done"
    /\ oresult'.ok

\* The messages of a strategy whose file failed the signature check or the
\* size check.
CheckMessages ==
    {"Invalid PNG format", "Invalid PNG format from PowerShell",
     "Screenshot too small - likely invalid",
     "PowerShell screenshot too small - likely invalid"}

\* A temp file leaves the directory only in a cleaner pass that finds it
\* older than the threshold; a failed strategy deletes nothing, and its file
\* is there afterwards when it failed a check on it.
LeftForTheCleaner ==
    /\ \A f \in tempFiles :
          f.name \notin Names(tempFiles') =>
             CleanerPass /\ f.age > StaleAfterMs
    /\ CleanerPass =>
          tempFiles' \subseteq tempFiles
    /\ StrategyFails =>
          /\ tempFiles \subseteq tempFiles'
          /\ Names(tempFiles') \subseteq Names(tempFiles) \cup {tempFile}
          /\ errors'[Len(errors')].msg \in CheckMessages =>
                tempFile \in Names(tempFiles')

ClearExtraRuns == ret'.op = "clearExtraScreenshotQueue"

\* The unlinks a step issues.
IssuedUnlinks ==
    SubSeq(pendingUnlinks', Len(pendingUnlinks) + 1, Len(pendingUnlinks'))

\* C35 (clearExtraScreenshotQueue leaves the main side alone): a step of
\* clearExtraScreenshotQueue leaves screenshotQueue and the view as they
\* are, deletes no file itself, and the unlinks it issues are unlinks of the
\* paths the extra queue held, none of which is a path of the main queue.
C35_ClearExtraLeavesMain ==
    [][ClearExtraRuns =>
         /\ screenshotQueue' = screenshotQueue
         /\ view' = view
         /\ files' = files
         /\ dirs' = dirs
         /\ extraScreenshotQueue' = <<>>
         /\ Len(pendingUnlinks') >= Len(pendingUnlinks)
         /\ SubSeq(pendingUnlinks', 1, Len(pendingUnlinks)) = pendingUnlinks
         /\ Range(IssuedUnlinks) \subseteq Range(extraScreenshotQueue)
         /\ Range(IssuedUnlinks) \cap Range(screenshotQueue) = {}]_vars

\* clearExtraScreenshotQueue has run with paths in both queues: it has
\* issued an unlink, the extra queue is empty, and the main queue holds its
\* path, whose file is on disk.
C35_Witness ==
    /\ ret.op = "clearExtraScreenshotQueue"
    /\ extraScreenshotQueue = <<>>
    /\ Len(screenshotQueue) = 1
    /\ Range(screenshotQueue) \subseteq files
    /\ Len(pendingUnlinks) = 1
    /\ pendingUnlinks[1].dir = extraScreenshotDir
    /\ pendingUnlinks[1] \in files

\* C36: for every step whose provider is gemini, the model loadConfig
\* returns for it is one of the allowed Gemini models.
C36_OnlyAllowedGeminiModels ==
    LET config == loadConfig(configFile, TRUE)
    IN \A step \in Steps :
          config[providerKey(step)] = "gemini" =>
             config[modelKey(step)] \in GEMINI_MODELS

\* The provider a step has after an update of a configuration: the one the
\* update names for it, else the apiProvider it names when that differs from
\* the configuration's, else the one it had.
ProviderAfter(updates, config, step) ==
    IF truthy(updates, providerKey(step))
    THEN updates[providerKey(step)]
    ELSE IF /\ truthy(updates, "apiProvider")
            /\ updates["apiProvider"] # config["apiProvider"]
    THEN updates["apiProvider"]
    ELSE config[providerKey(step)]

\* C37 as it is stated, the configuration being what config.json held when
\* updateConfig was called: a step whose provider the call changes has the
\* LM Studio model of the configuration when its new provider is lmstudio
\* and "gemini-2.0-flash" when it is gemini, whatever model the update names
\* for it; a step whose provider stays has the model it had unless the
\* update names one.
C37_ProviderChangeResetsStored ==
    kcall # <<>> =>
       LET call == kcall[1]
       IN \A step \in Steps :
             LET pk == providerKey(step)
                 mk == modelKey(step)
             IN IF call.newConfig[pk] # call.file[pk]
                THEN call.newConfig[mk] =
                        IF call.newConfig[pk] = "lmstudio"
                        THEN call.file["lmstudioModel"]
                        ELSE "gemini-2.0-flash"
                ELSE mk \notin DOMAIN call.updates =>
                        call.newConfig[mk] = call.file[mk]

\* C37 (a provider change resets the model): the configuration being what
\* loadConfig gave updateConfig, which is the defaults when config.json
\* could not be read, a step whose provider the call changes, directly or
\* through a changed apiProvider that no provider named for the step
\* overrides, has the LM Studio model of the configuration, or
\* "qwen3-vl-8b" when that is empty, when its new provider is lmstudio, and
\* "gemini-2.0-flash" when it is gemini, whatever model the update names for
\* it; a step whose provider stays has the model it had unless the update
\* names one. The new configuration is what config.json holds afterwards
\* unless the write failed.
C37_ProviderChangeResets ==
    kcall # <<>> =>
       LET call == kcall[1]
           config == call.currentConfig
       IN /\ config = IF call.readOk THEN call.file ELSE defaultConfig
          /\ configFile = IF call.writeOk THEN call.newConfig ELSE call.file
          /\ \A step \in Steps :
                LET pk == providerKey(step)
                    mk == modelKey(step)
                IN /\ call.newConfig[pk] =
                         ProviderAfter(call.updates, config, step)
                   /\ IF call.newConfig[pk] # config[pk]
                      THEN call.newConfig[mk] =
                              IF call.newConfig[pk] = "gemini"
                              THEN "gemini-2.0-flash"
                              ELSE IF config["lmstudioModel"] = ""
                              THEN "qwen3-vl-8b"
                              ELSE config["lmstudioModel"]
                      ELSE mk \notin DOMAIN call.updates =>
                              call.newConfig[mk] = config[mk]

\* An update that names apiProvider "lmstudio" and a model for the
\* extraction step, but no provider for it, has been applied to a
\* configuration with that step on gemini: the step is on lmstudio now, and
\* its model is the LM Studio model of the configuration, not the one the
\* update named.
C37_Witness ==
    /\ kcall # <<>>
    /\ LET call == kcall[1]
       IN /\ call.readOk
          /\ call.writeOk
          /\ DOMAIN call.updates = {"apiProvider", "extractionModel"}
          /\ call.updates["apiProvider"] = "lmstudio"
          /\ call.file["extractionProvider"] = "gemini"
          /\ call.newConfig["extractionProvider"] = "lmstudio"
          /\ call.newConfig["extractionModel"] = call.file["lmstudioModel"]
          /\ call.newConfig["extractionModel"] #
                call.updates["extractionModel"]
          /\ configFile = call.newConfig

====
